---- MODULE Spec2Model ----
(***************************************************************************)
(* Bonding-curve trading core of SafeSolFun: the buy and sell routes, the  *)
(* creator-fee routes, token creation and the price post, as concurrent    *)
(* request handlers over the shared Token / Transaction / CreatorFee       *)
(* tables.  A handler is cut into one action per database round trip (each *)
(* `await prisma...`); everything a handler computes between two awaits is *)
(* part of the action that follows the first of them.                      *)
(*                                                                         *)
(* Units.  Token amounts are counted in units of 10^6 tokens, SOL amounts  *)
(* (doubles in the code) are fixed point in centi-SOL, and the fee ledger  *)
(* and Transaction.solAmount are fixed point in 1/100 centi-SOL, so that   *)
(* the 1% and 5% fees are exact.  A price is a pair <<sol, tokens>>        *)
(* standing for the quotient sol / tokens.                                 *)
(***************************************************************************)
EXTENDS Integers, FiniteSets, Sequences, TLC

\* ---------------------------------------------------------------- bounds
NumTokens == 1
NumPairTokens == 2
SignificandBits == 15
MaxSolIn == 64
NumReqs == 2
MaxTime == 2
MaxStorageFailures == 1
NumSignatures == 2
MaxPuts == 2
MaxPricePoints == 3
MaxSockets == 6
MaxTokenSockets == 3
MaxTimers == 3
NumClientTokens == 2

\* the ids a Token row can take, and those the main specification creates
AllTokenIds == 1..NumPairTokens
TokenIds == 1..NumTokens
Reqs == 1..NumReqs
ClientTokens == 1..NumClientTokens
Signatures == 1..NumSignatures

\* ------------------------------------------------------------ fixed point
Sol(x) == 100 * x
Fine(centi) == 100 * centi
Abs(x) == IF x < 0 THEN 0 - x ELSE x
Max(a, b) == IF a >= b THEN a ELSE b
\* a / b rounded to the nearest representable value, as a double division is
RoundDiv(a, b) == (2 * a + b) \div (2 * b)

\* ------------------------------------------------- BondingCurve (solana.ts)
TARGET_SUPPLY == 800
INITIAL_VIRTUAL_SOL_RESERVES == 30
INITIAL_VIRTUAL_TOKEN_RESERVES == 1073
GRADUATION_MARKET_CAP == 30

ZeroPrice == <<0, 1>>

calculatePrice(currentSupply) ==
  IF currentSupply >= TARGET_SUPPLY
    THEN <<Sol(GRADUATION_MARKET_CAP), TARGET_SUPPLY>>
    ELSE LET virtualTokenReserves == INITIAL_VIRTUAL_TOKEN_RESERVES - currentSupply
         IN IF virtualTokenReserves <= 0
              THEN ZeroPrice
              ELSE <<Sol(INITIAL_VIRTUAL_SOL_RESERVES), virtualTokenReserves>>

\* the curve functions throw when currentSupply >= TARGET_SUPPLY
curveThrows(currentSupply) == currentSupply >= TARGET_SUPPLY

calculateTokensForSol(solAmount, currentSupply) ==
  LET virtualSolReserves == Sol(INITIAL_VIRTUAL_SOL_RESERVES)
      virtualTokenReserves == INITIAL_VIRTUAL_TOKEN_RESERVES - currentSupply
      k == virtualSolReserves * virtualTokenReserves
      den == virtualSolReserves + solAmount
      \* Math.floor(virtualTokenReserves - k / den)
  IN (virtualTokenReserves * den - k) \div den

calculateSolForTokens(tokenAmount, currentSupply) ==
  LET virtualSolReserves == Sol(INITIAL_VIRTUAL_SOL_RESERVES)
      virtualTokenReserves == INITIAL_VIRTUAL_TOKEN_RESERVES - currentSupply
      k == virtualSolReserves * virtualTokenReserves
      newSolReserves == RoundDiv(k, virtualTokenReserves + tokenAmount)
      solOut == virtualSolReserves - newSolReserves
  IN Max(0, solOut)

shouldGraduate(currentSupply, marketCap) ==
  currentSupply >= TARGET_SUPPLY \/ marketCap >= Sol(GRADUATION_MARKET_CAP)

\* the impact taken as a fraction where the tolerance is in percent
priceImpactExceeds_Fraction(actualPrice, expectedPrice, slippage) ==
  \/ actualPrice[2] = 0
  \/ Abs(actualPrice[1] * expectedPrice[2] - expectedPrice[1] * actualPrice[2])
       > slippage * expectedPrice[1] * actualPrice[2]

\* Math.abs((actual - expected) / expected) * 100 > slippage, on quotients;
\* a zero divisor in actualPrice gives Infinity, which exceeds every tolerance
priceImpactExceeds(actualPrice, expectedPrice, slippage) ==
  \/ actualPrice[2] = 0
  \/ 100 * Abs(actualPrice[1] * expectedPrice[2] - expectedPrice[1] * actualPrice[2])
       > slippage * expectedPrice[1] * actualPrice[2]

\* ------------------------------------------------------------------ state
VARIABLES
  tokens,        \* Token table: id -> row or NoToken
  transactions,  \* Transaction table: set of rows (signature is unique)
  creatorFees,   \* CreatorFee table: <<creatorAddress, tokenAddress>> -> row or NoFee
  req,           \* the in-flight and answered requests: locals, position, response
  now,           \* Date.now(), in ticks of one minute
  failures,      \* storage writes that have failed so far
  holders,       \* Holder table: the stored holder rows of every token
  priceHistory,  \* PriceHistory table: the stored price points, oldest first
  client         \* the browser side: the RealTimeService and a TokenWebSocket

vars == <<tokens, transactions, creatorFees, req, now, failures, holders, priceHistory,
          client>>

NoToken == [exists |-> FALSE]
NoFee == [exists |-> FALSE]

\* the objects of src/lib/api.ts as constructed.  A socket is "none" until it
\* is created, then "connecting", "open", "closing" (close() was called, the
\* close event is still to come) and "closed"; timers are the intervals set
\* and not cleared, as <<id, tokenId>>; timeouts counts the reconnections
\* scheduled with setTimeout and not yet run.
NoSocket == 0
NoTimer == 0
NewService ==
  [subscriptions |-> {}, intervals |-> [t \in ClientTokens |-> NoTimer], timers |-> {},
   timersSet |-> 0, ws |-> NoSocket, sockets |-> [n \in 1..MaxSockets |-> "none"],
   reconnectAttempts |-> 0, isConnected |-> FALSE, timeouts |-> 0, cleaned |-> FALSE]
NewTokenSocket ==
  [ws |-> NoSocket, sockets |-> [n \in 1..MaxTokenSockets |-> "none"],
   reconnectAttempts |-> 0, timeouts |-> 0, disconnected |-> FALSE]
\* no page loaded: neither object is in use
NoClient == [available |-> TRUE, service |-> NewService, socket |-> NewTokenSocket]
NoQuote == 0 - 1
NoSlippage == 0 - 1
Creator == "creator"
FeeKeys == {Creator} \X AllTokenIds

IdleReq ==
  [kind |-> "none", pc |-> "idle", tokenId |-> 0, amount |-> 0, slippage |-> NoSlippage,
   address |-> "none", signature |-> <<"none", 0>>, token |-> NoToken, out |-> NoQuote,
   tokenW |-> "no", txW |-> "no", feeW |-> "no", gradW |-> "no",
   queue |-> <<>>, total |-> 0, response |-> "none",
   name |-> "", symbol |-> "", totalSupply |-> 0,
   query |-> <<>>, data |-> <<>>, dataSource |-> "none", timestamp |-> 0]

\* request slots and token ids are handed out in order
NextSlot(r) == req[r].pc = "idle" /\ (IF r = 1 THEN TRUE ELSE req[r - 1].pc # "idle")
NextTokenId(id) == tokens[id] = NoToken /\ (IF id = 1 THEN TRUE ELSE tokens[id - 1] # NoToken)

\* the handler returns its response
Answer(r, rec, code) == req' = [req EXCEPT ![r] = [rec EXCEPT !.pc = "done", !.response = code]]

\* new Date(): the clock is read, and has stood still or moved on since the last reading
Dates == {now} \cup {d \in {now + 1} : d <= MaxTime}

Init ==
  /\ tokens = [t \in AllTokenIds |-> NoToken]
  /\ transactions = {}
  /\ creatorFees = [k \in FeeKeys |-> NoFee]
  /\ req = [r \in Reqs |-> IdleReq]
  /\ now = 1
  /\ failures = 0
  /\ holders = {}
  /\ priceHistory = <<>>
  /\ client = NoClient

\* ----------------------------------------------------------------- inputs
TotalSupplyInputs == {790, 1000}
\* data.name and data.symbol as sent; the main specification creates one token
NameInputs == {"Moon", "Doge", ""}
SymbolInputs == {"moon", "MOON", "DOGE"}
MainNames == {"Moon"}
MainSymbols == {"moon"}
InitialBuyInputs == {0, Sol(29)}
\* request bodies: an address is missing ("none"), not a public key ("bad") or valid
BuyBodies ==
  {[solAmount |-> 0, slippage |-> NoSlippage, buyerAddress |-> "ok"],
   [solAmount |-> Sol(1), slippage |-> NoSlippage, buyerAddress |-> "none"],
   [solAmount |-> Sol(1), slippage |-> NoSlippage, buyerAddress |-> "bad"],
   [solAmount |-> Sol(1), slippage |-> NoSlippage, buyerAddress |-> "ok"],
   [solAmount |-> Sol(2), slippage |-> NoSlippage, buyerAddress |-> "ok"],
   [solAmount |-> Sol(2), slippage |-> 50, buyerAddress |-> "ok"]}
SellBodies ==
  {[tokenAmount |-> 0, slippage |-> NoSlippage, sellerAddress |-> "ok"],
   [tokenAmount |-> 5, slippage |-> NoSlippage, sellerAddress |-> "none"],
   [tokenAmount |-> 5, slippage |-> NoSlippage, sellerAddress |-> "ok"],
   [tokenAmount |-> 60, slippage |-> NoSlippage, sellerAddress |-> "ok"],
   [tokenAmount |-> 60, slippage |-> 50, sellerAddress |-> "ok"],
   [tokenAmount |-> 900, slippage |-> NoSlippage, sellerAddress |-> "ok"]}
AdditionalFeesInputs == {Fine(1)}
PriceInputs == {<<Sol(1), 1>>}

\* ------------------------------------------------ POST /api/tokens (create)
BASE_PRICE == 1

calculateInitialPrice(marketCap) == <<Sol(BASE_PRICE) + marketCap, 1>>

\* data.symbol.trim().toUpperCase()
toUpperCase(symbol) == IF symbol = "moon" THEN "MOON" ELSE symbol

\* validateTokenData: the name and the symbol are non-empty strings
validationErrors(name, symbol) == name = "" \/ symbol = ""

\* prisma.token.findFirst({ where: { OR: [{ symbol }, { name }] } })
existingToken(normalizedName, normalizedSymbol) ==
  \E t \in AllTokenIds :
    /\ tokens[t] # NoToken
    /\ (tokens[t].symbol = normalizedSymbol \/ tokens[t].name = normalizedName)

\* CREATE UNIQUE INDEX "tokens_symbol_key"
symbolTaken(normalizedSymbol) ==
  \E t \in AllTokenIds : tokens[t] # NoToken /\ tokens[t].symbol = normalizedSymbol

\* the row of prisma.token.create; the mint address, fresh for every token,
\* is the token's id in the model
NewToken(id, normalizedName, normalizedSymbol, totalSupply, initialBuyAmount) ==
  LET currentMarketCap == IF initialBuyAmount > 0 THEN initialBuyAmount ELSE 0
  IN [exists |-> TRUE, name |-> normalizedName, symbol |-> normalizedSymbol,
      creatorAddress |-> Creator, tokenAddress |-> id,
      totalSupply |-> totalSupply, currentSupply |-> totalSupply,
      price |-> calculateInitialPrice(currentMarketCap),
      marketCap |-> currentMarketCap,
      isGraduated |-> FALSE, graduatedAt |-> 0]

\* the create handler run with no other creation in flight: validation,
\* existence check and insert in one step (a refused creation stores nothing)
CreateToken(id, name, symbol, totalSupply, initialBuyAmount) ==
  /\ NextTokenId(id)
  /\ ~validationErrors(name, symbol)
  /\ ~existingToken(name, toUpperCase(symbol))
  /\ tokens' = [tokens EXCEPT ![id] =
                  NewToken(id, name, toUpperCase(symbol), totalSupply, initialBuyAmount)]
  /\ UNCHANGED <<transactions, creatorFees, req, now, failures, holders, priceHistory, client>>

\* the create handler as two round trips, for creations that run side by side
CreateCheck(r, name, symbol, totalSupply, initialBuyAmount) ==
  /\ NextSlot(r)
  /\ LET r0 == [IdleReq EXCEPT !.kind = "create"]
         r1 == [r0 EXCEPT !.name = name, !.symbol = toUpperCase(symbol),
                          !.totalSupply = totalSupply, !.amount = initialBuyAmount]
     IN IF validationErrors(name, symbol) THEN Answer(r, r0, "validation_failed")
        ELSE IF existingToken(name, toUpperCase(symbol)) THEN Answer(r, r1, "conflict")
        ELSE req' = [req EXCEPT ![r] = [r1 EXCEPT !.pc = "insert"]]
  /\ UNCHANGED <<tokens, transactions, creatorFees, now, failures, holders, priceHistory, client>>

CreateInsert(r) ==
  /\ req[r].kind = "create" /\ req[r].pc = "insert"
  /\ \/ /\ ~symbolTaken(req[r].symbol)
        /\ \E id \in AllTokenIds :
             /\ NextTokenId(id)
             /\ tokens' = [tokens EXCEPT ![id] =
                             NewToken(id, req[r].name, req[r].symbol,
                                      req[r].totalSupply, req[r].amount)]
             /\ req' = [req EXCEPT ![r] = [@ EXCEPT !.tokenId = id, !.tokenW = "ok",
                                                     !.pc = "done", !.response = "ok"]]
        /\ UNCHANGED failures
     \/ /\ symbolTaken(req[r].symbol)
        /\ req' = [req EXCEPT ![r] = [@ EXCEPT !.tokenW = "fail", !.pc = "done",
                                                !.response = "failed"]]
        /\ UNCHANGED <<tokens, failures>>
     \/ /\ failures < MaxStorageFailures
        /\ failures' = failures + 1
        /\ req' = [req EXCEPT ![r] = [@ EXCEPT !.tokenW = "fail", !.pc = "done",
                                                !.response = "failed"]]
        /\ UNCHANGED tokens
  /\ UNCHANGED <<transactions, creatorFees, now, holders, priceHistory, client>>

\* ------------------------------------------------------ request bookkeeping
DefaultSlippage == 5

\* const { ..., slippage = 5, ... } = await request.json()
Tolerance(slippage) == IF slippage = NoSlippage THEN DefaultSlippage ELSE slippage

\* Promise.all([token.update, transaction.create]): the handler goes on to the
\* fee upsert when both writes are done, and answers 500 as soon as one fails
\* (the other write, already issued, still runs to its end).
AfterSettle(rec) ==
  IF rec.tokenW = "no" \/ rec.txW = "no"
    THEN IF rec.tokenW = "fail" \/ rec.txW = "fail"
           THEN [rec EXCEPT !.response = "failed"]
           ELSE rec
    ELSE IF rec.tokenW = "ok" /\ rec.txW = "ok"
           THEN [rec EXCEPT !.pc = "fee"]
           ELSE [rec EXCEPT !.pc = "done", !.response = "failed"]

\* the signature strings: `simulated_<Date.now()>_<random>` for a buy and
\* `sell_<Date.now()>_<random>` for a sell
BuySignature(n) == <<"simulated", n>>
SellSignature(n) == <<"sell", n>>

\* the unique index on transactions.signature left out
SignatureTaken_Never(signature) == FALSE

\* CREATE UNIQUE INDEX "transactions_signature_key"
SignatureTaken(signature) == \E tx \in transactions : tx.signature = signature

\* the fields of the row read by findUnique that a trade handler goes on to use
Snapshot(token) ==
  [exists |-> TRUE, creatorAddress |-> token.creatorAddress,
   tokenAddress |-> token.tokenAddress, currentSupply |-> token.currentSupply,
   marketCap |-> token.marketCap, isGraduated |-> token.isGraduated]

\* the fee row looked up by creator alone
FeeKeyOf_CreatorOnly(token) == <<token.creatorAddress, 1>>

\* where: { creatorAddress_tokenAddress: { creatorAddress, tokenAddress } }
FeeKeyOf(token) == <<token.creatorAddress, token.tokenAddress>>

\* the update branch storing the delta where it should add it
upsertIncrement_Overwrite(key, delta) ==
  [creatorFees EXCEPT ![key] =
     IF @ = NoFee
       THEN [exists |-> TRUE, totalFees |-> delta, claimedFees |-> 0, lastClaimedAt |-> 0]
       ELSE [@ EXCEPT !.totalFees = delta]]

\* creatorFee.upsert: create { totalFees: delta } / update { totalFees: { increment: delta } }
upsertIncrement(key, delta) ==
  [creatorFees EXCEPT ![key] =
     IF @ = NoFee
       THEN [exists |-> TRUE, totalFees |-> delta, claimedFees |-> 0, lastClaimedAt |-> 0]
       ELSE [@ EXCEPT !.totalFees = @ + delta]]

\* ------------------------------------------- POST /api/tokens/[id]/buy
BuyGraduationMarketCap == 30

BuyNewSupply(rec) == rec.token.currentSupply + rec.out
BuyNewMarketCap(rec) == rec.token.marketCap + rec.amount
BuyActualPrice(rec) == <<rec.amount, rec.out>>
BuyCreatorFee(rec) == (Fine(rec.amount) * 1) \div 100

BuyGraduationDue(rec) ==
  BuyNewMarketCap(rec) >= Sol(BuyGraduationMarketCap) /\ ~rec.token.isGraduated

\* the graduation gate left out
BuyRejectsGraduated_Never(token) == FALSE

\* if (token.isGraduated) return 400
BuyRejectsGraduated(token) == token.isGraduated

BuyRead(r, id, solAmount, slippage, buyerAddress) ==
  /\ NextSlot(r)
  /\ LET slip == Tolerance(slippage)
         r0 == [IdleReq EXCEPT !.kind = "buy", !.tokenId = id, !.amount = solAmount,
                               !.slippage = slippage, !.address = buyerAddress]
         token == tokens[id]
         r1 == [r0 EXCEPT !.token = Snapshot(token)]
         rv == [IdleReq EXCEPT !.kind = "buy"]
     IN IF solAmount <= 0 THEN Answer(r, rv, "invalid_amount")
        ELSE IF buyerAddress = "none" THEN Answer(r, rv, "address_required")
        ELSE IF token = NoToken THEN Answer(r, rv, "not_found")
        ELSE IF BuyRejectsGraduated(token) THEN Answer(r, r1, "graduated")
        ELSE IF curveThrows(token.currentSupply) THEN Answer(r, r1, "failed")
        ELSE LET r2 == [r1 EXCEPT !.out = calculateTokensForSol(solAmount, token.currentSupply)]
             IN IF priceImpactExceeds(BuyActualPrice(r2),
                                      calculatePrice(token.currentSupply), slip)
                  THEN Answer(r, r2, "price_impact")
                ELSE IF buyerAddress = "bad" THEN Answer(r, r2, "failed")
                ELSE req' = [req EXCEPT ![r] = [r2 EXCEPT !.pc = "settle"]]
  /\ UNCHANGED <<tokens, transactions, creatorFees, now, failures, holders, priceHistory, client>>

BuyTokenUpdate(r) ==
  /\ req[r].kind = "buy" /\ req[r].pc = "settle" /\ req[r].tokenW = "no"
  /\ \/ /\ tokens' = [tokens EXCEPT ![req[r].tokenId] =
                        [@ EXCEPT !.currentSupply = BuyNewSupply(req[r]),
                                  !.price = calculatePrice(BuyNewSupply(req[r])),
                                  !.marketCap = BuyNewMarketCap(req[r])]]
        /\ req' = [req EXCEPT ![r] = AfterSettle([@ EXCEPT !.tokenW = "ok"])]
        /\ UNCHANGED failures
     \/ /\ failures < MaxStorageFailures
        /\ failures' = failures + 1
        /\ req' = [req EXCEPT ![r] = AfterSettle([@ EXCEPT !.tokenW = "fail"])]
        /\ UNCHANGED tokens
  /\ UNCHANGED <<transactions, creatorFees, now, holders, priceHistory, client>>

BuyTxCreate(r) ==
  /\ req[r].kind = "buy" /\ req[r].pc = "settle" /\ req[r].txW = "no"
  /\ \E n \in Signatures : LET signature == BuySignature(n) IN
       \/ /\ ~SignatureTaken(signature)
          /\ transactions' = transactions \cup
               {[tokenId |-> req[r].tokenId, userAddress |-> req[r].address,
                 type |-> "BUY", amount |-> req[r].out, solAmount |-> Fine(req[r].amount),
                 price |-> BuyActualPrice(req[r]), signature |-> signature,
                 createdAt |-> now]}
          /\ req' = [req EXCEPT ![r] =
                       AfterSettle([@ EXCEPT !.txW = "ok", !.signature = signature])]
          /\ UNCHANGED failures
       \/ /\ SignatureTaken(signature)
          /\ req' = [req EXCEPT ![r] = AfterSettle([@ EXCEPT !.txW = "fail"])]
          /\ UNCHANGED <<transactions, failures>>
       \/ /\ failures < MaxStorageFailures
          /\ failures' = failures + 1
          /\ req' = [req EXCEPT ![r] = AfterSettle([@ EXCEPT !.txW = "fail"])]
          /\ UNCHANGED transactions
  /\ UNCHANGED <<tokens, creatorFees, now, holders, priceHistory, client>>

BuyFeeUpsert(r) ==
  /\ req[r].kind = "buy" /\ req[r].pc = "fee"
  /\ \/ /\ creatorFees' = upsertIncrement(FeeKeyOf(req[r].token), BuyCreatorFee(req[r]))
        /\ req' = [req EXCEPT ![r] =
                     IF BuyGraduationDue(@)
                       THEN [@ EXCEPT !.feeW = "ok", !.pc = "grad"]
                       ELSE [@ EXCEPT !.feeW = "ok", !.pc = "done", !.response = "ok"]]
        /\ UNCHANGED failures
     \/ /\ failures < MaxStorageFailures
        /\ failures' = failures + 1
        /\ req' = [req EXCEPT ![r] = [@ EXCEPT !.feeW = "fail", !.pc = "done",
                                                !.response = "failed"]]
        /\ UNCHANGED creatorFees
  /\ UNCHANGED <<tokens, transactions, now, holders, priceHistory, client>>

BuyGraduate(r) ==
  /\ req[r].kind = "buy" /\ req[r].pc = "grad"
  /\ \/ /\ \E date \in Dates :
             /\ now' = date
             /\ tokens' = [tokens EXCEPT ![req[r].tokenId] =
                             [@ EXCEPT !.isGraduated = TRUE, !.graduatedAt = date]]
        /\ req' = [req EXCEPT ![r] = [@ EXCEPT !.gradW = "ok", !.pc = "done",
                                                !.response = "ok"]]
        /\ UNCHANGED failures
     \/ /\ failures < MaxStorageFailures
        /\ failures' = failures + 1
        /\ req' = [req EXCEPT ![r] = [@ EXCEPT !.gradW = "fail", !.pc = "done",
                                                !.response = "failed"]]
        /\ UNCHANGED <<tokens, now>>
  /\ UNCHANGED <<transactions, creatorFees, holders, priceHistory, client>>

\* ------------------------------------------- POST /api/tokens/[id]/sell
\* the operands of the debit swapped and the clamp left out
SellNewSupply_Swapped(rec) == rec.amount - rec.token.currentSupply

\* const newSupply = Math.max(0, currentSupply - tokenAmount)
SellNewSupply(rec) == Max(0, rec.token.currentSupply - rec.amount)
SellNewMarketCap(rec) == Max(0, rec.token.marketCap - rec.out)
SellActualPrice(rec) == <<rec.out, rec.amount>>
\* the sale recorded at the curve's gross output
SellSolAfterFee_Gross(rec) == Fine(rec.out)
\* sellFee = 0.05
SellFeeAmount(rec) == (Fine(rec.out) * 5) \div 100
SellSolAfterFee(rec) == (Fine(rec.out) * (100 - 5)) \div 100

\* if (token.isGraduated) return 400
SellRejectsGraduated(token) == token.isGraduated

\* the supply gate left out
SellInsufficientSupply_Never(tokenAmount, currentSupply) == FALSE

\* if (tokenAmount > currentSupply) return 400
SellInsufficientSupply(tokenAmount, currentSupply) == tokenAmount > currentSupply

SellRead(r, id, tokenAmount, slippage, sellerAddress) ==
  /\ NextSlot(r)
  /\ LET slip == Tolerance(slippage)
         r0 == [IdleReq EXCEPT !.kind = "sell", !.tokenId = id, !.amount = tokenAmount,
                               !.slippage = slippage, !.address = sellerAddress]
         token == tokens[id]
         r1 == [r0 EXCEPT !.token = Snapshot(token)]
         rv == [IdleReq EXCEPT !.kind = "sell"]
     IN IF tokenAmount <= 0 THEN Answer(r, rv, "invalid_amount")
        ELSE IF sellerAddress = "none" THEN Answer(r, rv, "address_required")
        ELSE IF token = NoToken THEN Answer(r, rv, "not_found")
        ELSE IF SellRejectsGraduated(token) THEN Answer(r, r1, "graduated")
        ELSE IF SellInsufficientSupply(tokenAmount, token.currentSupply)
          THEN Answer(r, r1, "insufficient_supply")
        ELSE IF curveThrows(token.currentSupply) THEN Answer(r, r1, "failed")
        ELSE LET r2 == [r1 EXCEPT !.out = calculateSolForTokens(tokenAmount, token.currentSupply)]
             IN IF priceImpactExceeds(SellActualPrice(r2),
                                      calculatePrice(token.currentSupply), slip)
                  THEN Answer(r, r2, "price_impact")
                ELSE req' = [req EXCEPT ![r] = [r2 EXCEPT !.pc = "settle"]]
  /\ UNCHANGED <<tokens, transactions, creatorFees, now, failures, holders, priceHistory, client>>

SellTokenUpdate(r) ==
  /\ req[r].kind = "sell" /\ req[r].pc = "settle" /\ req[r].tokenW = "no"
  /\ \/ /\ tokens' = [tokens EXCEPT ![req[r].tokenId] =
                        [@ EXCEPT !.currentSupply = SellNewSupply(req[r]),
                                  !.price = calculatePrice(SellNewSupply(req[r])),
                                  !.marketCap = SellNewMarketCap(req[r])]]
        /\ req' = [req EXCEPT ![r] = AfterSettle([@ EXCEPT !.tokenW = "ok"])]
        /\ UNCHANGED failures
     \/ /\ failures < MaxStorageFailures
        /\ failures' = failures + 1
        /\ req' = [req EXCEPT ![r] = AfterSettle([@ EXCEPT !.tokenW = "fail"])]
        /\ UNCHANGED tokens
  /\ UNCHANGED <<transactions, creatorFees, now, holders, priceHistory, client>>

SellTxCreate(r) ==
  /\ req[r].kind = "sell" /\ req[r].pc = "settle" /\ req[r].txW = "no"
  /\ \E n \in Signatures : LET signature == SellSignature(n) IN
       \/ /\ ~SignatureTaken(signature)
          /\ transactions' = transactions \cup
               {[tokenId |-> req[r].tokenId, userAddress |-> req[r].address,
                 type |-> "SELL", amount |-> req[r].amount, solAmount |-> SellSolAfterFee(req[r]),
                 price |-> SellActualPrice(req[r]), signature |-> signature,
                 createdAt |-> now]}
          /\ req' = [req EXCEPT ![r] =
                       AfterSettle([@ EXCEPT !.txW = "ok", !.signature = signature])]
          /\ UNCHANGED failures
       \/ /\ SignatureTaken(signature)
          /\ req' = [req EXCEPT ![r] = AfterSettle([@ EXCEPT !.txW = "fail"])]
          /\ UNCHANGED <<transactions, failures>>
       \/ /\ failures < MaxStorageFailures
          /\ failures' = failures + 1
          /\ req' = [req EXCEPT ![r] = AfterSettle([@ EXCEPT !.txW = "fail"])]
          /\ UNCHANGED transactions
  /\ UNCHANGED <<tokens, creatorFees, now, holders, priceHistory, client>>

SellFeeUpsert(r) ==
  /\ req[r].kind = "sell" /\ req[r].pc = "fee"
  /\ \/ /\ creatorFees' = upsertIncrement(FeeKeyOf(req[r].token), SellFeeAmount(req[r]))
        /\ req' = [req EXCEPT ![r] = [@ EXCEPT !.feeW = "ok", !.pc = "done",
                                                !.response = "ok"]]
        /\ UNCHANGED failures
     \/ /\ failures < MaxStorageFailures
        /\ failures' = failures + 1
        /\ req' = [req EXCEPT ![r] = [@ EXCEPT !.feeW = "fail", !.pc = "done",
                                                !.response = "failed"]]
        /\ UNCHANGED creatorFees
  /\ UNCHANGED <<tokens, transactions, now, holders, priceHistory, client>>

\* ------------------------------------ POST /api/creator-fees/claim (claim)
RECURSIVE SeqOfKeys(_)
SeqOfKeys(S) ==
  IF S = {} THEN <<>>
  ELSE LET k == CHOOSE x \in S : \A y \in S : x[2] <= y[2]
       IN <<k>> \o SeqOfKeys(S \ {k})

\* tokenAddress 0 stands for a request that names no token
ClaimRead(r, tokenAddress) ==
  /\ NextSlot(r)
  /\ LET r0 == [IdleReq EXCEPT !.kind = "claim", !.tokenId = tokenAddress]
         feesToClaim == {k \in FeeKeys : /\ creatorFees[k] # NoFee
                                         /\ k[1] = Creator
                                         /\ creatorFees[k].totalFees > 0
                                         /\ (tokenAddress # 0 => k[2] = tokenAddress)}
         claimableFees == {k \in feesToClaim :
                             creatorFees[k].totalFees > creatorFees[k].claimedFees}
         snapshot(k) == [key |-> k, totalFees |-> creatorFees[k].totalFees,
                         claimedFees |-> creatorFees[k].claimedFees]
         keys == SeqOfKeys(claimableFees)
     IN IF feesToClaim = {} THEN Answer(r, r0, "no_records")
        ELSE IF claimableFees = {} THEN Answer(r, r0, "nothing_to_claim")
        ELSE req' = [req EXCEPT ![r] =
                       [r0 EXCEPT !.pc = "claim",
                                  !.queue = [i \in 1..Len(keys) |-> snapshot(keys[i])]]]
  /\ UNCHANGED <<tokens, transactions, creatorFees, now, failures, holders, priceHistory, client>>

ClaimUpdate(r) ==
  /\ req[r].kind = "claim" /\ req[r].pc = "claim"
  /\ LET fee == Head(req[r].queue)
         availableAmount == fee.totalFees - fee.claimedFees
         rest == Tail(req[r].queue)
     IN \/ /\ \E date \in Dates :
                /\ now' = date
                /\ creatorFees' = [creatorFees EXCEPT ![fee.key] =
                                     [@ EXCEPT !.claimedFees = fee.totalFees,
                                               !.lastClaimedAt = date]]
           /\ req' = [req EXCEPT ![r] =
                        IF rest = <<>>
                          THEN [@ EXCEPT !.queue = rest, !.total = @ + availableAmount,
                                         !.pc = "done", !.response = "ok"]
                          ELSE [@ EXCEPT !.queue = rest, !.total = @ + availableAmount]]
           /\ UNCHANGED failures
        \/ /\ failures < MaxStorageFailures
           /\ failures' = failures + 1
           /\ req' = [req EXCEPT ![r] = [@ EXCEPT !.pc = "done", !.response = "failed"]]
           /\ UNCHANGED <<creatorFees, now>>
  /\ UNCHANGED <<tokens, transactions, holders, priceHistory, client>>

\* ------------------------------------ PUT /api/creator-fees/[creatorAddress]
PutFees(tokenAddress, additionalFees) ==
  /\ additionalFees > 0
  /\ LET row == creatorFees[<<Creator, tokenAddress>>]
     IN IF row = NoFee THEN MaxPuts > 0 ELSE row.totalFees < MaxPuts * additionalFees
  /\ creatorFees' = upsertIncrement(<<Creator, tokenAddress>>, additionalFees)
  /\ UNCHANGED <<tokens, transactions, req, now, failures, holders, priceHistory, client>>

\* ------------------------------------ POST /api/tokens/[id]/price-history
\* prisma.priceHistory.create with createdAt: new Date(); the table grows
\* by one row
storePricePoint(tokenId, price, volume, date) ==
  Append(priceHistory, [tokenId |-> tokenId, price |-> price, volume |-> volume,
                        createdAt |-> date])

\* the body's price is stored as a point (volume defaults to 0) and written
\* to the token row; a failed store is logged and passed over
PostPrice(id, price) ==
  /\ price[1] > 0
  /\ tokens[id] # NoToken
  /\ Len(priceHistory) < MaxPricePoints
  /\ \/ priceHistory' = storePricePoint(id, price, 0, now) /\ UNCHANGED failures
     \/ /\ failures < MaxStorageFailures
        /\ failures' = failures + 1
        /\ UNCHANGED priceHistory
  /\ tokens' = [tokens EXCEPT ![id] = [@ EXCEPT !.price = price]]
  /\ UNCHANGED <<transactions, creatorFees, req, now, holders, client>>

\* ------------------------------------------------------------------- spec
Next ==
  \/ \E id \in TokenIds, n \in MainNames, sy \in MainSymbols,
        ts \in TotalSupplyInputs, ib \in InitialBuyInputs :
       CreateToken(id, n, sy, ts, ib)
  \/ \E r \in Reqs, id \in TokenIds, b \in BuyBodies :
       BuyRead(r, id, b.solAmount, b.slippage, b.buyerAddress)
  \/ \E r \in Reqs : BuyTokenUpdate(r)
  \/ \E r \in Reqs : BuyTxCreate(r)
  \/ \E r \in Reqs : BuyFeeUpsert(r)
  \/ \E r \in Reqs : BuyGraduate(r)
  \/ \E r \in Reqs, id \in TokenIds, b \in SellBodies :
       SellRead(r, id, b.tokenAmount, b.slippage, b.sellerAddress)
  \/ \E r \in Reqs : SellTokenUpdate(r)
  \/ \E r \in Reqs : SellTxCreate(r)
  \/ \E r \in Reqs : SellFeeUpsert(r)
  \/ \E r \in Reqs, t \in {0} \cup TokenIds : ClaimRead(r, t)
  \/ \E r \in Reqs : ClaimUpdate(r)
  \/ \E t \in TokenIds, f \in AdditionalFeesInputs : PutFees(t, f)
  \/ \E id \in TokenIds, p \in PriceInputs : PostPrice(id, p)

Spec == Init /\ [][Next]_vars

\* Two tokens side by side, traded by requests that pass validation.
PairSupplyInputs == {790}
PairBuyBodies == {b \in BuyBodies : b.solAmount = Sol(1) /\ b.buyerAddress = "ok"}
PairSellBodies == {b \in SellBodies : b.tokenAmount = 5 /\ b.sellerAddress = "ok"}

NextPair ==
  \/ \E id \in AllTokenIds, n \in NameInputs, sy \in SymbolInputs,
        ts \in PairSupplyInputs, ib \in InitialBuyInputs :
       CreateToken(id, n, sy, ts, ib)
  \/ \E r \in Reqs, id \in AllTokenIds, b \in PairBuyBodies :
       BuyRead(r, id, b.solAmount, b.slippage, b.buyerAddress)
  \/ \E r \in Reqs : BuyTokenUpdate(r)
  \/ \E r \in Reqs : BuyTxCreate(r)
  \/ \E r \in Reqs : BuyFeeUpsert(r)
  \/ \E r \in Reqs : BuyGraduate(r)
  \/ \E r \in Reqs, id \in AllTokenIds, b \in PairSellBodies :
       SellRead(r, id, b.tokenAmount, b.slippage, b.sellerAddress)
  \/ \E r \in Reqs : SellTokenUpdate(r)
  \/ \E r \in Reqs : SellTxCreate(r)
  \/ \E r \in Reqs : SellFeeUpsert(r)

SpecPair == Init /\ [][NextPair]_vars

\* Token creations side by side.
NextCreate ==
  \/ \E r \in Reqs, n \in NameInputs, sy \in SymbolInputs,
        ts \in TotalSupplyInputs, ib \in InitialBuyInputs :
       CreateCheck(r, n, sy, ts, ib)
  \/ \E r \in Reqs : CreateInsert(r)

SpecCreate == Init /\ [][NextCreate]_vars

\* ------------------------------- BondingCurve in floating point (solana.ts)
\* The curve functions with the rounding of each double operation kept.  A
\* double is a binary floating-point number rounded to nearest, ties to even;
\* its 53-bit significand is cut to SignificandBits, in step with the token
\* unit of 10^6 tokens.  SOL values are counted in units of 2^-SolBits SOL,
\* the spacing of the doubles between 16 and 32, and token values in units of
\* 2^-TokBits, the spacing of the doubles between 256 and 512; the inputs keep
\* every intermediate value at or above these ranges.
RECURSIVE Pow2(_)
Pow2(n) == IF n <= 0 THEN 1 ELSE 2 * Pow2(n - 1)

SolBits == SignificandBits - 5
TokBits == SignificandBits - 9

\* floor(log2(a / b)) for a / b >= 1
Exponent(a, b) ==
  CHOOSE e \in 0..(SignificandBits - 1) : Pow2(e) * b <= a /\ a < Pow2(e + 1) * b

roundHalfEven(a, b) ==
  LET q == a \div b
      r == a % b
  IN IF 2 * r > b THEN q + 1
     ELSE IF 2 * r = b THEN q + (q % 2)
     ELSE q

\* the double nearest to a / b, in units of 2^-unitBits
fl(a, b, unitBits) ==
  LET e == Exponent(a, b)
      scale == SignificandBits - 1 - e
  IN roundHalfEven(a * Pow2(scale), b) * Pow2(unitBits - scale)

\* solAmount in units of 2^-SolBits SOL
calculateTokensForSolFl(solAmount, currentSupply) ==
  LET virtualSolReserves == INITIAL_VIRTUAL_SOL_RESERVES
      virtualTokenReserves == INITIAL_VIRTUAL_TOKEN_RESERVES - currentSupply
      k == virtualSolReserves * virtualTokenReserves
      \* virtualSolReserves + solAmount, then k / that, both rounded
      den == fl(virtualSolReserves * Pow2(SolBits) + solAmount, Pow2(SolBits), SolBits)
      newTokenReserves == fl(k * Pow2(SolBits), den, TokBits)
      tokensOut == virtualTokenReserves * Pow2(TokBits) - newTokenReserves
  IN tokensOut \div Pow2(TokBits)

\* the result in units of 2^-SolBits SOL
calculateSolForTokensFl(tokenAmount, currentSupply) ==
  LET virtualSolReserves == INITIAL_VIRTUAL_SOL_RESERVES
      virtualTokenReserves == INITIAL_VIRTUAL_TOKEN_RESERVES - currentSupply
      k == virtualSolReserves * virtualTokenReserves
      newSolReserves == fl(k, virtualTokenReserves + tokenAmount, SolBits)
      solOut == virtualSolReserves * Pow2(SolBits) - newSolReserves
  IN Max(0, solOut)

\* A caller of the two curve functions: it quotes the tokens for solIn at a
\* supply, then the SOL for those tokens at the same supply.
CurveSupplyInputs == {0, 400, 790}

InitCurve ==
  /\ tokens = [t \in AllTokenIds |-> NoToken]
  /\ transactions = {}
  /\ creatorFees = [k \in FeeKeys |-> NoFee]
  /\ \E currentSupply \in CurveSupplyInputs, solIn \in 1..MaxSolIn :
       req = [r \in Reqs |->
                IF r = 1
                  THEN [IdleReq EXCEPT !.kind = "quote", !.pc = "tokens",
                                       !.amount = solIn,
                                       !.token = [exists |-> TRUE,
                                                  currentSupply |-> currentSupply]]
                  ELSE IdleReq]
  /\ now = 1
  /\ failures = 0
  /\ holders = {}
  /\ priceHistory = <<>>
  /\ client = NoClient

QuoteTokensForSol(r) ==
  /\ req[r].kind = "quote" /\ req[r].pc = "tokens"
  /\ ~curveThrows(req[r].token.currentSupply)
  /\ req' = [req EXCEPT ![r] =
               [@ EXCEPT !.out = calculateTokensForSolFl(req[r].amount,
                                                         req[r].token.currentSupply),
                         !.pc = "sol"]]
  /\ UNCHANGED <<tokens, transactions, creatorFees, now, failures, holders, priceHistory, client>>

QuoteSolForTokens(r) ==
  /\ req[r].kind = "quote" /\ req[r].pc = "sol"
  /\ ~curveThrows(req[r].token.currentSupply)
  /\ req' = [req EXCEPT ![r] =
               [@ EXCEPT !.total = calculateSolForTokensFl(req[r].out,
                                                           req[r].token.currentSupply),
                         !.pc = "done"]]
  /\ UNCHANGED <<tokens, transactions, creatorFees, now, failures, holders, priceHistory, client>>

NextCurve ==
  \/ \E r \in Reqs : QuoteTokensForSol(r)
  \/ \E r \in Reqs : QuoteSolForTokens(r)

SpecCurve == InitCurve /\ [][NextCurve]_vars

\* ------------------------------------------------- RugDetector (solana.ts)
\* A text field of the token metadata is absent (undefined) or a string, kept
\* as the sequence of its characters; a numeric field is absent (NoValue) or
\* a number; a link or url is kept as whether it is a non-empty string; the
\* description is kept as its length.
NoValue == 0 - 1
NotGiven == [given |-> FALSE, text |-> <<>>]
Given(text) == [given |-> TRUE, text |-> text]
\* !field, for a text field
falsy(field) == ~field.given \/ field.text = <<>>
\* the string a text field turns into under `+`
toString(field) ==
  IF field.given THEN field.text ELSE <<"u", "n", "d", "e", "f", "i", "n", "e", "d">>

toLowerCase(text) ==
  LET lower(c) == CASE c = "A" -> "a" [] c = "E" -> "e" [] c = "M" -> "m"
                    [] c = "N" -> "n" [] c = "S" -> "s" [] c = "T" -> "t"
                    [] c = "X" -> "x" [] OTHER -> c
  IN [i \in 1..Len(text) |-> lower(text[i])]

includes(text, pattern) ==
  \E i \in 1..(Len(text) - Len(pattern) + 1) :
    SubSeq(text, i, i + Len(pattern) - 1) = pattern

startsWith(text, prefix) ==
  Len(text) >= Len(prefix) /\ SubSeq(text, 1, Len(prefix)) = prefix

Min(a, b) == IF a <= b THEN a ELSE b

suspiciousPatterns ==
  {<<"t", "e", "s", "t">>, <<"1", "2", "3">>, <<"t", "e", "m", "p">>,
   <<"s", "a", "m", "p", "l", "e">>, <<"x", "x", "x">>}

\* 1_000_000_000_000 tokens, in units of 10^6 tokens
MaxSaneSupply == 1000000

creatorPoints(token) ==
  IF falsy(token.creatorAddress) THEN 20
  ELSE IF startsWith(token.creatorAddress.text, <<"1", "1", "1", "1">>) THEN 10
  ELSE 0

socialPoints(token) ==
  LET socialLinks == SelectSeq(<<token.website, token.twitter, token.telegram>>,
                               LAMBDA link : link)
  IN IF Len(socialLinks) = 0 THEN 15
     ELSE IF Len(socialLinks) = 1 THEN 10
     ELSE IF Len(socialLinks) = 2 THEN 5
     ELSE 0

\* the second branch taking a description of exactly 20 characters too
descriptionPoints_Inclusive(token) ==
  IF token.description = NoValue \/ token.description = 0 THEN 15
  ELSE IF token.description <= 20 THEN 10
  ELSE IF token.description < 50 THEN 5
  ELSE 0

descriptionPoints(token) ==
  IF token.description = NoValue \/ token.description = 0 THEN 15
  ELSE IF token.description < 20 THEN 10
  ELSE IF token.description < 50 THEN 5
  ELSE 0

imagePoints(token) == (IF ~token.imageUrl THEN 10 ELSE 0) + (IF ~token.bannerUrl THEN 5 ELSE 0)

namePoints(token) ==
  (IF falsy(token.name) \/ Len(token.name.text) < 3 THEN 5 ELSE 0)
  + (IF falsy(token.symbol) \/ Len(token.symbol.text) < 2 THEN 5 ELSE 0)

patternPoints(token) ==
  LET nameToCheck == toLowerCase(toString(token.name) \o <<" ">> \o toString(token.symbol))
  IN IF \E pattern \in suspiciousPatterns : includes(nameToCheck, pattern) THEN 10 ELSE 0

economicsPoints(token) ==
  (IF token.totalSupply # NoValue /\ token.totalSupply # 0
        /\ token.totalSupply > MaxSaneSupply THEN 10 ELSE 0)
  + (IF token.initialBuy = NoValue \/ token.initialBuy = 0 THEN 5 ELSE 0)

analyzeToken(token) ==
  LET rugScore == creatorPoints(token) + socialPoints(token) + descriptionPoints(token)
                  + imagePoints(token) + namePoints(token) + patternPoints(token)
                  + economicsPoints(token)
  IN Min(rugScore, 100)

\* the VERY_HIGH band ending at 80
getRiskLevel_Narrow(score) ==
  IF score < 15 THEN "VERY_LOW"
  ELSE IF score < 30 THEN "LOW"
  ELSE IF score < 50 THEN "MEDIUM"
  ELSE IF score < 70 THEN "HIGH"
  ELSE IF score < 80 THEN "VERY_HIGH"
  ELSE "EXTREME"

getRiskLevel(score) ==
  IF score < 15 THEN "VERY_LOW"
  ELSE IF score < 30 THEN "LOW"
  ELSE IF score < 50 THEN "MEDIUM"
  ELSE IF score < 70 THEN "HIGH"
  ELSE IF score < 85 THEN "VERY_HIGH"
  ELSE "EXTREME"

\* token metadata handed to the detector
CreatorInputs == {NotGiven, Given(<<"1", "1", "1", "1", "A">>), Given(<<"A", "1", "1", "1", "1">>)}
DescriptionInputs == {NoValue, 0, 19, 20, 49, 50}
RugNameInputs ==
  {NotGiven, Given(<<>>), Given(<<"1", "2">>), Given(<<"T", "e", "s", "t">>),
   Given(<<"M", "o", "o", "n">>)}
RugSymbolInputs ==
  {NotGiven, Given(<<"3">>), Given(<<"M", "N">>), Given(<<"M", "X", "X", "X">>)}
RugSupplyInputs == {NoValue, MaxSaneSupply, MaxSaneSupply + 1}
InitialBuyValues == {NoValue, 0, 1}

TokenMetadata ==
  [creatorAddress : CreatorInputs, website : BOOLEAN, twitter : BOOLEAN,
   telegram : BOOLEAN, description : DescriptionInputs, imageUrl : BOOLEAN,
   bannerUrl : BOOLEAN, name : RugNameInputs, symbol : RugSymbolInputs,
   totalSupply : RugSupplyInputs, initialBuy : InitialBuyValues]

InitRug ==
  /\ tokens = [t \in AllTokenIds |-> NoToken]
  /\ transactions = {}
  /\ creatorFees = [k \in FeeKeys |-> NoFee]
  /\ \E token \in TokenMetadata :
       req = [r \in Reqs |->
                IF r = 1
                  THEN [IdleReq EXCEPT !.kind = "analyze", !.pc = "score", !.token = token]
                  ELSE IdleReq]
  /\ now = 1
  /\ failures = 0
  /\ holders = {}
  /\ priceHistory = <<>>
  /\ client = NoClient

AnalyzeToken(r) ==
  /\ req[r].kind = "analyze" /\ req[r].pc = "score"
  /\ req' = [req EXCEPT ![r] = [@ EXCEPT !.out = analyzeToken(req[r].token), !.pc = "level"]]
  /\ UNCHANGED <<tokens, transactions, creatorFees, now, failures, holders, priceHistory, client>>

GetRiskLevel(r) ==
  /\ req[r].kind = "analyze" /\ req[r].pc = "level"
  /\ req' = [req EXCEPT ![r] = [@ EXCEPT !.response = getRiskLevel(req[r].out), !.pc = "done"]]
  /\ UNCHANGED <<tokens, transactions, creatorFees, now, failures, holders, priceHistory, client>>

NextRug ==
  \/ \E r \in Reqs : AnalyzeToken(r)
  \/ \E r \in Reqs : GetRiskLevel(r)

SpecRug == InitRug /\ [][NextRug]_vars

\* ------------------------------------------- GET /api/tokens/[id]/holders
\* Transaction.type is BUY or SELL; the replay counts every row that is not a
\* buy as a sale:  tx.type.toLowerCase() === 'buy'
isBuy(tx) == tx.type = "BUY"

RECURSIVE sumAmounts(_)
sumAmounts(rows) ==
  IF rows = {} THEN 0
  ELSE LET tx == CHOOSE x \in rows : TRUE IN tx.amount + sumAmounts(rows \ {tx})

\* prisma.transaction.findMany({ where: { tokenId } })
tokenTransactions(tokenId) == {tx \in transactions : tx.tokenId = tokenId}

\* the entry of userMap for an address
userTransactions(tokenId, address) ==
  {tx \in tokenTransactions(tokenId) : tx.userAddress = address}
totalBought(tokenId, address) ==
  sumAmounts({tx \in userTransactions(tokenId, address) : isBuy(tx)})
totalSold(tokenId, address) ==
  sumAmounts({tx \in userTransactions(tokenId, address) : ~isBuy(tx)})
RECURSIVE latest(_)
latest(rows) ==
  LET tx == CHOOSE x \in rows : TRUE
  IN IF rows = {tx} THEN tx.createdAt ELSE Max(tx.createdAt, latest(rows \ {tx}))
RECURSIVE earliest(_)
earliest(rows) ==
  LET tx == CHOOSE x \in rows : TRUE
  IN IF rows = {tx} THEN tx.createdAt ELSE Min(tx.createdAt, earliest(rows \ {tx}))

\* the balance test with the zero balances let through
positiveBalance_OrZero(balance) == balance >= 0

\* if (balance > 0)
positiveBalance(balance) == balance > 0

WhaleValue == 10000

\* percentage > 1, on the quotient
percentageOverOne(percentage) == percentage[1] > percentage[2]

\* the HolderData entry of an address: the profit fields, which no filter
\* reads, are left out
holderData(tokenId, address, currentPrice, totalSupply) ==
  LET balance == totalBought(tokenId, address) - totalSold(tokenId, address)
      percentage == IF totalSupply > 0 THEN <<100 * balance, totalSupply>> ELSE <<0, 1>>
      value == <<balance * currentPrice[1], currentPrice[2]>>
  IN [address |-> address, balance |-> balance, percentage |-> percentage,
      value |-> value,
      lastActivity |-> latest(userTransactions(tokenId, address)),
      isWhale |-> percentageOverOne(percentage)
                    \/ value[1] > Sol(WhaleValue) * value[2]]

\* holders.sort((a, b) => b.balance - a.balance): the sort is stable, and
\* userMap holds the addresses in the order of their first transaction
RECURSIVE sortByBalance(_, _)
sortByBalance(tokenId, entries) ==
  IF entries = {} THEN <<>>
  ELSE LET first == CHOOSE h \in entries : \A g \in entries :
                      \/ h.balance > g.balance
                      \/ /\ h.balance = g.balance
                         /\ earliest(userTransactions(tokenId, h.address))
                              <= earliest(userTransactions(tokenId, g.address))
       IN <<first>> \o sortByBalance(tokenId, entries \ {first})

\* array.slice(0, n)
slice(list, n) == SubSeq(list, 1, Min(n, Len(list)))

ReplayRows == 100

calculateRealTimeHolders(tokenId, currentPrice, totalSupply) ==
  LET addresses == {tx.userAddress : tx \in tokenTransactions(tokenId)}
      entries == {holderData(tokenId, a, currentPrice, totalSupply) : a \in addresses}
  IN slice(sortByBalance(tokenId, {h \in entries : positiveBalance(h.balance)}),
           ReplayRows)

\* the Holder rows are a cache of the replay, trusted for five minutes
HolderCacheTtl == 5
DefaultLimit == 50
MaxLimit == 100
GetCacheRows == 50
MaxHolderTime == 8

\* Date.now() and new Date() of a holders request, one reading for the whole
\* request: the clock has stood still, moved on a minute, or moved past the
\* lifetime of the rows stored now
HolderDates == {d \in {now, now + 1, now + HolderCacheTtl + 1} : d <= MaxHolderTime}

\* orderBy: { balance: 'desc' }; rows of equal balance come in an order of the
\* database's choosing
RECURSIVE orderByBalance(_)
orderByBalance(rows) ==
  IF rows = {} THEN <<>>
  ELSE LET first == CHOOSE h \in rows : \A g \in rows : h.balance >= g.balance
       IN <<first>> \o orderByBalance(rows \ {first})

\* prisma.holder.findMany({ where: { tokenId, updatedAt: { gte: now - 5 min } },
\*                          orderBy: { balance: 'desc' }, take: limit })
recentHolders(tokenId, limit, date) ==
  slice(orderByBalance({h \in holders : /\ h.tokenId = tokenId
                                         /\ h.updatedAt >= date - HolderCacheTtl}),
        limit)

\* a stored row as the handler serves it; balance and percentage are stored as
\* the decimal strings of the numbers and parse back to the same numbers
cachedHolder(row, currentPrice) ==
  [address |-> row.address, balance |-> row.balance, percentage |-> row.percentage,
   value |-> <<row.balance * currentPrice[1], currentPrice[2]>>,
   lastActivity |-> row.lastActivity,
   isWhale |-> percentageOverOne(row.percentage)]

\* the rows of holders.slice(0, n).map(...), stamped with new Date()
holderInserts(tokenId, list, n, date) ==
  {[tokenId |-> tokenId, address |-> list[i].address, balance |-> list[i].balance,
    percentage |-> list[i].percentage, lastActivity |-> list[i].lastActivity,
    updatedAt |-> date] : i \in 1..Len(slice(list, n))}

\* try { deleteMany; createMany } catch { warn }: both go through, the delete
\* fails, or the delete goes through and the insert fails
StoreHolders(tokenId, list, n, date, failed) ==
  LET others == {h \in holders : h.tokenId # tokenId}
  IN \/ /\ holders' = others \cup holderInserts(tokenId, list, n, date)
        /\ failures' = failed
     \/ /\ failed < MaxStorageFailures
        /\ holders' = holders
        /\ failures' = failed + 1
     \/ /\ failed < MaxStorageFailures
        /\ Len(list) > 0
        /\ holders' = others
        /\ failures' = failed + 1

\* the limit parameter as sent, or none
NoLimit == 0 - 1
\* Math.min(parseInt(searchParams.get('limit') || '50'), 100)
limitOf(limit) == Min(IF limit = NoLimit THEN DefaultLimit ELSE limit, MaxLimit)

\* the whales and minBalance filters, then slice(0, limit)
limitedHolders(list, query) ==
  LET whales == IF query.whales THEN SelectSeq(list, LAMBDA h : h.isWhale) ELSE list
      filteredHolders == IF query.minBalance > 0
                           THEN SelectSeq(whales, LAMBDA h : h.balance >= query.minBalance)
                           ELSE whales
  IN slice(filteredHolders, limitOf(query.limit))

\* the response rows; toFixed(6) prints a balance of whole tokens in full
formattedHolders(list) ==
  [i \in 1..Len(list) |->
     [address |-> list[i].address, balance |-> list[i].balance,
      isWhale |-> list[i].isWhale, rank |-> i]]

GetHolders(r, id, query) ==
  /\ NextSlot(r)
  /\ LET r0 == [IdleReq EXCEPT !.kind = "holders", !.tokenId = id, !.query = query]
     IN IF tokens[id] = NoToken
          THEN /\ Answer(r, r0, "not_found")
               /\ UNCHANGED <<now, failures, holders>>
          ELSE \E date \in HolderDates, readFails \in BOOLEAN :
                 LET totalSupply == tokens[id].totalSupply
                     currentPrice == tokens[id].price
                     recent == IF readFails THEN <<>>
                               ELSE recentHolders(id, limitOf(query.limit), date)
                     cached == Len(recent) > 0 /\ ~query.realtime
                     list == IF cached
                               THEN [i \in 1..Len(recent) |->
                                       cachedHolder(recent[i], currentPrice)]
                               ELSE calculateRealTimeHolders(id, currentPrice, totalSupply)
                     failed == IF readFails THEN failures + 1 ELSE failures
                 IN /\ readFails => failures < MaxStorageFailures
                    /\ now' = date
                    /\ Answer(r, [r0 EXCEPT !.data = formattedHolders(limitedHolders(list, query)),
                                            !.dataSource = IF cached THEN "cached"
                                                           ELSE "calculated",
                                            !.timestamp = date], "ok")
                    /\ IF cached
                         THEN holders' = holders /\ failures' = failed
                         ELSE StoreHolders(id, list, GetCacheRows, date, failed)
  /\ UNCHANGED <<tokens, transactions, creatorFees, priceHistory, client>>

\* POST /api/tokens/[id]/holders: the forced replay, stored whole
PostHolders(r, id) ==
  /\ NextSlot(r)
  /\ LET r0 == [IdleReq EXCEPT !.kind = "refresh", !.tokenId = id]
     IN IF tokens[id] = NoToken
          THEN /\ Answer(r, r0, "not_found")
               /\ UNCHANGED <<now, failures, holders>>
          ELSE \E date \in HolderDates :
                 LET list == calculateRealTimeHolders(id, tokens[id].price,
                                                      tokens[id].totalSupply)
                 IN /\ now' = date
                    /\ Answer(r, [r0 EXCEPT !.data = list, !.timestamp = date], "ok")
                    /\ StoreHolders(id, list, ReplayRows, date, failures)
  /\ UNCHANGED <<tokens, transactions, creatorFees, priceHistory, client>>

\* The replay on its own: a token with a history of settled trades, whose
\* holders are then recomputed.  A trade is in a history only if its route
\* accepts it: a buy below the target supply, a sale of no more than the supply.
MaxHistory == 3
LedgerAddresses == {"addr1", "addr2"}
LedgerAmounts == {30, 50, 100}
LedgerSupplyInputs == {0, 100}
LedgerTrades == [userAddress : LedgerAddresses, type : {"BUY", "SELL"}, amount : LedgerAmounts]
Histories == UNION {[1..n -> LedgerTrades] : n \in 0..MaxHistory}
Refused == 0 - 1

RECURSIVE supplyAfter(_, _)
supplyAfter(history, currentSupply) ==
  IF history = <<>> THEN currentSupply
  ELSE LET trade == Head(history)
       IN IF curveThrows(currentSupply) THEN Refused
          ELSE IF trade.type = "BUY"
            THEN supplyAfter(Tail(history), currentSupply + trade.amount)
          ELSE IF SellInsufficientSupply(trade.amount, currentSupply) THEN Refused
          ELSE supplyAfter(Tail(history), currentSupply - trade.amount)

\* the Transaction rows of a history, in the columns the replay selects
historyRows(tokenId, history) ==
  {[tokenId |-> tokenId, userAddress |-> history[i].userAddress,
    type |-> history[i].type, amount |-> history[i].amount,
    signature |-> IF history[i].type = "BUY" THEN BuySignature(i) ELSE SellSignature(i),
    createdAt |-> i] : i \in 1..Len(history)}

InitLedger ==
  /\ \E totalSupply \in LedgerSupplyInputs, history \in Histories :
       /\ supplyAfter(history, totalSupply) # Refused
       /\ tokens = [t \in AllTokenIds |->
                      IF t = 1
                        THEN [NewToken(1, "Moon", "MOON", totalSupply, 0) EXCEPT
                                !.currentSupply = supplyAfter(history, totalSupply),
                                !.price = calculatePrice(supplyAfter(history, totalSupply))]
                        ELSE NoToken]
       /\ transactions = historyRows(1, history)
       /\ now = Len(history) + 1
  /\ creatorFees = [k \in FeeKeys |-> NoFee]
  /\ req = [r \in Reqs |-> IdleReq]
  /\ failures = 0
  /\ holders = {}
  /\ priceHistory = <<>>
  /\ client = NoClient

NextLedger == \E r \in Reqs, id \in AllTokenIds : PostHolders(r, id)

SpecLedger == InitLedger /\ [][NextLedger]_vars

\* Holders of one token, created with no initial buy, asked for by clients
\* that send one request at a time: buys by two addresses and holder queries.
\* The market cap stays below the graduation threshold, so the graduation
\* step of a buy is never due.
NumHolderReqs == 5
HolderReqs == 1..NumHolderReqs
HolderAddresses == {"addr1", "addr2"}
HolderQueries ==
  {[limit |-> NoLimit, whales |-> FALSE, minBalance |-> 0, realtime |-> FALSE],
   [limit |-> 1, whales |-> TRUE, minBalance |-> 9, realtime |-> FALSE],
   [limit |-> NoLimit, whales |-> FALSE, minBalance |-> 0, realtime |-> TRUE]}

InitHolders ==
  /\ \E ts \in PairSupplyInputs :
       tokens = [t \in AllTokenIds |->
                   IF t = 1 THEN NewToken(1, "Moon", "MOON", ts, 0) ELSE NoToken]
  /\ transactions = {}
  /\ creatorFees = [k \in FeeKeys |-> NoFee]
  /\ req = [r \in HolderReqs |-> IdleReq]
  /\ now = 1
  /\ failures = 0
  /\ holders = {}
  /\ priceHistory = <<>>
  /\ client = NoClient

\* the slots a client may use: none while a request is in flight
QuietSlots ==
  IF \A r \in HolderReqs : req[r].pc \in {"idle", "done"} THEN HolderReqs ELSE {}

NextHolders ==
  \/ \E r \in QuietSlots, a \in HolderAddresses, b \in PairBuyBodies :
       BuyRead(r, 1, b.solAmount, b.slippage, a)
  \/ \E r \in HolderReqs : BuyTokenUpdate(r)
  \/ \E r \in HolderReqs : BuyTxCreate(r)
  \/ \E r \in HolderReqs : BuyFeeUpsert(r)
  \/ \E r \in QuietSlots, q \in HolderQueries : GetHolders(r, 1, q)

SpecHolders == InitHolders /\ [][NextHolders]_vars

\* ----------------------------------- GET /api/tokens/[id]/price-history
\* Prices, volumes and their averages are kept as exact quotients.
RECURSIVE gcd(_, _)
gcd(a, b) == IF b = 0 THEN a ELSE gcd(b, a % b)
reduce(q) == LET g == gcd(q[1], q[2]) IN IF g = 0 THEN q ELSE <<q[1] \div g, q[2] \div g>>
plus(p, q) == reduce(<<p[1] * q[2] + q[1] * p[2], p[2] * q[2]>>)
times(p, n) == reduce(<<p[1] * n, p[2]>>)
over(p, n) == reduce(<<p[1], p[2] * n>>)

IntervalMinutes == 15
DefaultHours == 24
MinStoredPoints == 3
MaxRealisticPrice == 1000000
MinutesPerDay == 1440

\* tx.price ? tx.price : solAmount / Math.max(tokenAmount, 0.000001); the
\* amount of a trade is at least one unit, and solAmount is in 1/100 centi-SOL
txPrice(tx) == IF tx.price[1] # 0 THEN tx.price ELSE <<tx.solAmount, 100 * tx.amount>>

\* txPrice > 0 && txPrice < 1000000, in SOL per token
acceptedPrice(price) ==
  price[1] > 0 /\ (price[1] \div 100000000) < MaxRealisticPrice * price[2]

\* Math.floor(txTime / intervalMs) * intervalMs, in minutes
intervalStartOf(time, minutes) == (time \div minutes) * minutes

\* toLocaleTimeString: the hour and minute of the day
timeOfDay(timestamp) == timestamp % MinutesPerDay

\* prisma.transaction.findMany({ where: { tokenId, createdAt: { gte: startTime } } })
recentTransactions(tokenId, hours, date) ==
  {tx \in transactions : tx.tokenId = tokenId /\ tx.createdAt >= date - hours * 60}

\* the transactions pushed into the priceMap entry of an interval
intervalTransactions(tokenId, hours, date, intervalStart) ==
  {tx \in recentTransactions(tokenId, hours, date) :
     /\ intervalStartOf(tx.createdAt, IntervalMinutes) = intervalStart
     /\ acceptedPrice(txPrice(tx))}

RECURSIVE sumVolumes(_)
sumVolumes(rows) ==
  IF rows = {} THEN 0
  ELSE LET tx == CHOOSE x \in rows : TRUE IN tx.solAmount + sumVolumes(rows \ {tx})
RECURSIVE sumPrices(_)
sumPrices(rows) ==
  IF rows = {} THEN ZeroPrice
  ELSE LET tx == CHOOSE x \in rows : TRUE IN plus(txPrice(tx), sumPrices(rows \ {tx}))
RECURSIVE sumPriceVolumes(_)
sumPriceVolumes(rows) ==
  IF rows = {} THEN ZeroPrice
  ELSE LET tx == CHOOSE x \in rows : TRUE
       IN plus(times(txPrice(tx), tx.solAmount), sumPriceVolumes(rows \ {tx}))

\* the plain mean of the prices taken whatever the volume
intervalPoint_Mean(rows, intervalStart) ==
  [time |-> timeOfDay(intervalStart), price |-> over(sumPrices(rows), Cardinality(rows)),
   volume |-> sumVolumes(rows), transactions |-> Cardinality(rows),
   timestamp |-> intervalStart]

\* the volume-weighted average price of an interval, or the plain mean of its
\* prices when its volume is zero
intervalPoint(rows, intervalStart) ==
  LET totalVolume == sumVolumes(rows)
      vwap == IF totalVolume > 0 THEN over(sumPriceVolumes(rows), totalVolume)
              ELSE over(sumPrices(rows), Cardinality(rows))
  IN [time |-> timeOfDay(intervalStart), price |-> vwap, volume |-> totalVolume,
      transactions |-> Cardinality(rows), timestamp |-> intervalStart]

\* sort((a, b) => a.timestamp - b.timestamp), on points of distinct timestamps
RECURSIVE sortByTimestamp(_)
sortByTimestamp(points) ==
  IF points = {} THEN <<>>
  ELSE LET first == CHOOSE p \in points : \A q \in points : p.timestamp <= q.timestamp
       IN <<first>> \o sortByTimestamp(points \ {first})

generateRealTimePriceHistory(tokenId, hours, date) ==
  LET starts == {intervalStartOf(tx.createdAt, IntervalMinutes) :
                   tx \in {x \in recentTransactions(tokenId, hours, date) :
                             acceptedPrice(txPrice(x))}}
  IN sortByTimestamp({intervalPoint(intervalTransactions(tokenId, hours, date, s), s) :
                        s \in starts})

\* prisma.priceHistory.findMany({ where: { tokenId, createdAt: { gte: startTime } },
\*                                orderBy: { createdAt: 'asc' } }) as price points
RECURSIVE storedPoints(_, _, _)
storedPoints(rows, tokenId, startTime) ==
  IF rows = <<>> THEN <<>>
  ELSE LET row == Head(rows)
           rest == storedPoints(Tail(rows), tokenId, startTime)
       IN IF row.tokenId = tokenId /\ row.createdAt >= startTime
            THEN <<[time |-> timeOfDay(row.createdAt), price |-> row.price,
                    volume |-> row.volume, transactions |-> 1,
                    timestamp |-> row.createdAt]>> \o rest
            ELSE rest
getStoredPriceHistory(tokenId, hours, date) ==
  storedPoints(priceHistory, tokenId, date - hours * 60)

\* the price of the latest transaction of the token (one of the latest when
\* several share the instant), or else the token's stored price
getCurrentPrice(tokenId) ==
  LET rows == tokenTransactions(tokenId)
  IN IF rows # {}
       THEN LET recentTx == CHOOSE tx \in rows : \A x \in rows : tx.createdAt >= x.createdAt
            IN IF txPrice(recentTx)[1] > 0 THEN txPrice(recentTx) ELSE ZeroPrice
       ELSE tokens[tokenId].price

\* the widths applyGranularityFilter knows, in minutes; any other granularity
\* leaves the points as they are
NoWidth == 0
granularityMinutes(granularity) ==
  IF granularity = "1m" THEN 1
  ELSE IF granularity = "5m" THEN 5
  ELSE IF granularity = "15m" THEN 15
  ELSE IF granularity = "1h" THEN 60
  ELSE NoWidth

RECURSIVE sumPointVolumes(_, _)
sumPointVolumes(data, indices) ==
  IF indices = {} THEN 0
  ELSE LET i == CHOOSE x \in indices : TRUE
       IN data[i].volume + sumPointVolumes(data, indices \ {i})
RECURSIVE sumPointTransactions(_, _)
sumPointTransactions(data, indices) ==
  IF indices = {} THEN 0
  ELSE LET i == CHOOSE x \in indices : TRUE
       IN data[i].transactions + sumPointTransactions(data, indices \ {i})
RECURSIVE sumPointPrices(_, _)
sumPointPrices(data, indices) ==
  IF indices = {} THEN ZeroPrice
  ELSE LET i == CHOOSE x \in indices : TRUE
       IN plus(data[i].price, sumPointPrices(data, indices \ {i}))
RECURSIVE sumPointPriceVolumes(_, _)
sumPointPriceVolumes(data, indices) ==
  IF indices = {} THEN ZeroPrice
  ELSE LET i == CHOOSE x \in indices : TRUE
       IN plus(times(data[i].price, data[i].volume),
               sumPointPriceVolumes(data, indices \ {i}))

applyGranularityFilter(data, granularity) ==
  LET intervalMinutes == granularityMinutes(granularity)
      bucketOf(i) == intervalStartOf(data[i].timestamp, intervalMinutes)
      grouped(bucket) == {i \in 1..Len(data) : bucketOf(i) = bucket}
      point(bucket) ==
        LET points == grouped(bucket)
            totalVolume == sumPointVolumes(data, points)
            vwap == IF totalVolume > 0
                      THEN over(sumPointPriceVolumes(data, points), totalVolume)
                      ELSE over(sumPointPrices(data, points), Cardinality(points))
        IN [time |-> timeOfDay(bucket), price |-> vwap, volume |-> totalVolume,
            transactions |-> sumPointTransactions(data, points), timestamp |-> bucket]
  IN IF Len(data) = 0 \/ intervalMinutes = NoWidth THEN data
     ELSE sortByTimestamp({point(bucketOf(i)) : i \in 1..Len(data)})

\* Date.now() and new Date() of a price-history request, one reading for the
\* whole request, within the minute of the request before it
PriceDates == {now}

\* the points the handler answers with before the granularity filter, and
\* where they come from
pricePoints(id, date) ==
  LET storedHistory == getStoredPriceHistory(id, DefaultHours, date)
      transactionHistory == generateRealTimePriceHistory(id, DefaultHours, date)
      currentPrice == getCurrentPrice(id)
  IN IF Len(storedHistory) >= MinStoredPoints
       THEN [source |-> "stored", points |-> storedHistory]
     ELSE IF Len(transactionHistory) > 0
       THEN [source |-> "transactions", points |-> transactionHistory]
     ELSE IF currentPrice[1] > 0
       THEN [source |-> "current",
             points |-> <<[time |-> timeOfDay(date), price |-> currentPrice, volume |-> 0,
                           transactions |-> 0, timestamp |-> date]>>]
     ELSE [source |-> "none", points |-> <<>>]

\* data: priceHistory.map(point => ({ time, price, volume, transactions }))
responsePoints(points) ==
  [i \in 1..Len(points) |->
     [time |-> points[i].time, price |-> points[i].price, volume |-> points[i].volume,
      transactions |-> points[i].transactions]]

\* GET with the default 24 hours; the latest generated point is stored for
\* later requests (a failed store is logged and passed over)
GetPriceHistory(r, id, granularity) ==
  /\ NextSlot(r)
  /\ LET r0 == [IdleReq EXCEPT !.kind = "prices", !.tokenId = id, !.query = granularity]
     IN IF tokens[id] = NoToken
          THEN /\ Answer(r, r0, "not_found")
               /\ UNCHANGED <<now, failures, priceHistory>>
          ELSE \E date \in PriceDates :
                 LET found == pricePoints(id, date)
                     filtered == IF granularity # "auto" /\ Len(found.points) > 0
                                   THEN applyGranularityFilter(found.points, granularity)
                                   ELSE found.points
                     latestPoint == found.points[Len(found.points)]
                 IN /\ now' = date
                    /\ Answer(r, [r0 EXCEPT !.data = responsePoints(filtered),
                                            !.dataSource = found.source,
                                            !.timestamp = date], "ok")
                    /\ IF found.source = "transactions"
                         THEN /\ Len(priceHistory) < MaxPricePoints
                              /\ \/ /\ priceHistory' = storePricePoint(id, latestPoint.price,
                                                                       latestPoint.volume, date)
                                    /\ UNCHANGED failures
                                 \/ /\ failures < MaxStorageFailures
                                    /\ failures' = failures + 1
                                    /\ UNCHANGED priceHistory
                         ELSE UNCHANGED <<failures, priceHistory>>
  /\ UNCHANGED <<tokens, transactions, creatorFees, holders, client>>

\* The aggregation on its own: a token whose trades, recorded at minutes 7,
\* 16 and 61, are then asked for at every granularity, with prices posted in
\* between.  Prices are 0.001, 0.002 and 0.003 SOL per token and, for a sale
\* that paid out nothing, zero.
MaxTrades == 3
TradeTimes == {7, 16, 61}
TradePrices ==
  {[price |-> <<100000, 1>>, solAmount |-> 1], [price |-> <<200000, 1>>, solAmount |-> 1],
   [price |-> <<300000, 1>>, solAmount |-> 2], [price |-> ZeroPrice, solAmount |-> 0]}
PricedTrades == [trade : TradePrices, createdAt : TradeTimes]
PricedHistories ==
  {h \in UNION {[1..n -> PricedTrades] : n \in 0..MaxTrades} :
     \A i \in 1..Len(h) - 1 : h[i].createdAt <= h[i + 1].createdAt}
Granularities == {"auto", "1m", "5m", "15m", "1h"}

\* the Transaction rows of a history, in the columns the aggregation selects
pricedRows(tokenId, history) ==
  {[tokenId |-> tokenId, type |-> IF history[i].trade.solAmount > 0 THEN "BUY" ELSE "SELL",
    amount |-> 1, solAmount |-> history[i].trade.solAmount,
    price |-> history[i].trade.price, signature |-> BuySignature(i),
    createdAt |-> history[i].createdAt] : i \in 1..Len(history)}

InitPrices ==
  /\ tokens = [t \in AllTokenIds |->
                 IF t = 1 THEN NewToken(1, "Moon", "MOON", 790, 0) ELSE NoToken]
  /\ \E history \in PricedHistories : transactions = pricedRows(1, history)
  /\ creatorFees = [k \in FeeKeys |-> NoFee]
  /\ req = [r \in Reqs |-> IdleReq]
  /\ now = 61
  /\ failures = 0
  /\ holders = {}
  /\ priceHistory = <<>>
  /\ client = NoClient

NextPrices ==
  \/ \E r \in Reqs, g \in Granularities : GetPriceHistory(r, 1, g)
  \/ \E p \in PriceInputs : PostPrice(1, p)

SpecPrices == InitPrices /\ [][NextPrices]_vars

\* ------------------------------------------ POST /api/tokens/[id]/qoute
QuoteFee == 1
MinImpact == <<1, 100>>
MaxImpact == <<15, 1>>

\* p < q, p * q and 1 / p on quotients
less(p, q) == p[1] * q[2] < q[1] * p[2]
product(p, q) ==
  LET a == reduce(<<p[1], q[2]>>)
      b == reduce(<<q[1], p[2]>>)
  IN reduce(<<a[1] * b[1], a[2] * b[2]>>)
inverse(p) == <<p[2], p[1]>>

\* supplyRatio = inputAmount / Math.max(currentSupply, 1000000), times 10,
\* times 1.1 for a buy and 0.9 for a sale, kept within 0.01 and 15 (percent).
\* The input is SOL (centi-SOL here) for a buy and tokens for a sale; the
\* supply is in tokens (units of 10^6 here).
calculatePriceImpact(inputAmount, currentSupply, isBuying) ==
  LET supply == Max(currentSupply, 1)
      impact == IF isBuying
                  THEN over(reduce(<<11 * inputAmount, 1000000 * supply>>), 100)
                  ELSE reduce(<<9 * inputAmount, supply>>)
  IN IF less(impact, MinImpact) THEN MinImpact
     ELSE IF less(MaxImpact, impact) THEN MaxImpact
     ELSE impact

\* the quote computed from the stored price: the output at the price moved by
\* the impact, less the 1% fee
quoteOf(inputAmount, isBuying, currentPrice, currentSupply) ==
  LET priceImpact == calculatePriceImpact(inputAmount, currentSupply, isBuying)
      move == IF isBuying
                THEN reduce(<<100 * priceImpact[2] + priceImpact[1], 100 * priceImpact[2]>>)
                ELSE reduce(<<100 * priceImpact[2] - priceImpact[1], 100 * priceImpact[2]>>)
      effectivePrice == product(reduce(currentPrice), move)
      outputAmount == IF isBuying
                        THEN product(<<inputAmount, 1>>, inverse(effectivePrice))
                        ELSE product(<<inputAmount, 1>>, effectivePrice)
      fees == product(outputAmount, <<QuoteFee, 100>>)
  IN [outputAmount |-> product(outputAmount, <<100 - QuoteFee, 100>>), fees |-> fees,
      priceImpact |-> priceImpact, effectivePrice |-> effectivePrice,
      currentPrice |-> currentPrice]

\* isBuying as sent: a boolean, or something else
QuoteBodies ==
  {[inputAmount |-> 0, isBuying |-> "true"], [inputAmount |-> Sol(1), isBuying |-> "true"],
   [inputAmount |-> 5, isBuying |-> "false"], [inputAmount |-> 5, isBuying |-> "none"]}

\* A buy at a stored price of zero divides by zero: the amounts are not
\* numbers and the answer carries no quote.
PostQuote(r, id, inputAmount, isBuying) ==
  /\ NextSlot(r)
  /\ LET r0 == [IdleReq EXCEPT !.kind = "estimate", !.tokenId = id, !.amount = inputAmount,
                               !.query = isBuying]
         token == tokens[id]
     IN IF inputAmount <= 0 THEN Answer(r, r0, "invalid_amount")
        ELSE IF isBuying \notin {"true", "false"} THEN Answer(r, r0, "invalid_direction")
        ELSE IF token = NoToken THEN Answer(r, r0, "not_found")
        ELSE IF token.price[1] = 0 /\ isBuying = "true"
          THEN Answer(r, [r0 EXCEPT !.token = Snapshot(token)], "ok")
        ELSE Answer(r, [r0 EXCEPT !.token = Snapshot(token),
                                  !.data = quoteOf(inputAmount, isBuying = "true",
                                                   token.price, token.currentSupply)],
                    "ok")
  /\ UNCHANGED <<tokens, transactions, creatorFees, now, failures, holders, priceHistory, client>>

\* One token, quoted and traded by requests that pass validation.
NextQuote ==
  \/ \E ts \in PairSupplyInputs, ib \in InitialBuyInputs :
       CreateToken(1, "Moon", "moon", ts, ib)
  \/ \E r \in Reqs, b \in PairBuyBodies :
       BuyRead(r, 1, b.solAmount, b.slippage, b.buyerAddress)
  \/ \E r \in Reqs : BuyTokenUpdate(r)
  \/ \E r \in Reqs : BuyTxCreate(r)
  \/ \E r \in Reqs : BuyFeeUpsert(r)
  \/ \E r \in Reqs : BuyGraduate(r)
  \/ \E r \in Reqs, b \in PairSellBodies :
       SellRead(r, 1, b.tokenAmount, b.slippage, b.sellerAddress)
  \/ \E r \in Reqs : SellTokenUpdate(r)
  \/ \E r \in Reqs : SellTxCreate(r)
  \/ \E r \in Reqs : SellFeeUpsert(r)
  \/ \E r \in Reqs, b \in QuoteBodies : PostQuote(r, 1, b.inputAmount, b.isBuying)

SpecQuote == Init /\ [][NextQuote]_vars

\* ------------------------------------------- RealTimeService (src/lib/api.ts)
maxReconnectAttempts == 5

\* setInterval(...) and this.intervals.set(tokenId, intervalId)
startPolling(s, tokenId) ==
  LET intervalId == s.timersSet + 1
  IN [s EXCEPT !.timers = @ \cup {<<intervalId, tokenId>>}, !.timersSet = intervalId,
               !.intervals = [@ EXCEPT ![tokenId] = intervalId]]

RECURSIVE startPollingEach(_, _)
startPollingEach(s, tokenIds) ==
  IF tokenIds = {} THEN s
  ELSE LET tokenId == CHOOSE x \in tokenIds : \A y \in tokenIds : x <= y
       IN startPollingEach(startPolling(s, tokenId), tokenIds \ {tokenId})

\* this.subscriptions.forEach((options, tokenId) => this.startPolling(tokenId, options))
setupPollingFallback(s) == startPollingEach(s, s.subscriptions)

socketsCreated(sockets) == Cardinality({n \in DOMAIN sockets : sockets[n] # "none"})

\* new WebSocket(...) with its handlers attached; where the runtime has no
\* WebSocket the constructor throws and the catch turns to polling
setupWebSocket(s, available) ==
  IF available
    THEN LET n == socketsCreated(s.sockets) + 1
         IN [s EXCEPT !.ws = n, !.sockets = [@ EXCEPT ![n] = "connecting"]]
    ELSE setupPollingFallback(s)

handleReconnect(s) ==
  IF s.reconnectAttempts < maxReconnectAttempts
    THEN [s EXCEPT !.reconnectAttempts = @ + 1, !.timeouts = @ + 1]
    ELSE setupPollingFallback(s)

\* subscriptions.delete, clearInterval(intervals.get(tokenId)), intervals.delete
unsubscribe(s, tokenId) ==
  LET intervalId == s.intervals[tokenId]
  IN [s EXCEPT !.subscriptions = @ \ {tokenId},
               !.timers = {timer \in @ : timer[1] # intervalId},
               !.intervals = [@ EXCEPT ![tokenId] = NoTimer]]

RECURSIVE unsubscribeEach(_, _)
unsubscribeEach(s, tokenIds) ==
  IF tokenIds = {} THEN s
  ELSE LET tokenId == CHOOSE x \in tokenIds : \A y \in tokenIds : x <= y
       IN unsubscribeEach(unsubscribe(s, tokenId), tokenIds \ {tokenId})
unsubscribeAll(s) == unsubscribeEach(s, s.subscriptions)

\* WebSocket.close(): a socket connecting or open starts closing, and its
\* close event follows; on any other socket the call does nothing
close(sockets, n) ==
  IF sockets[n] \in {"connecting", "open"} THEN [sockets EXCEPT ![n] = "closing"] ELSE sockets

\* the service put in place of the one in the client, within the bounds
ServiceBecomes(s) ==
  /\ s.timersSet <= MaxTimers
  /\ client' = [client EXCEPT !.service = s]
  /\ UNCHANGED <<tokens, transactions, creatorFees, req, now, failures, holders,
                 priceHistory>>

Subscribe(tokenId) ==
  /\ tokenId \in ClientTokens
  /\ LET s == [client.service EXCEPT !.subscriptions = @ \cup {tokenId}]
     IN ServiceBecomes(IF s.isConnected /\ s.ws # NoSocket
                         THEN s ELSE startPolling(s, tokenId))

Unsubscribe(tokenId) ==
  /\ tokenId \in ClientTokens
  /\ ServiceBecomes(unsubscribe(client.service, tokenId))

UnsubscribeAll ==
  /\ client.service.subscriptions # {}
  /\ ServiceBecomes(unsubscribeAll(client.service))

Cleanup ==
  /\ ~client.service.cleaned
  /\ LET s == unsubscribeAll(client.service)
     IN ServiceBecomes([s EXCEPT !.sockets = IF s.ws # NoSocket THEN close(@, s.ws) ELSE @,
                                 !.ws = NoSocket, !.isConnected = FALSE, !.cleaned = TRUE])

\* ws.onopen
ServiceOpen(n) ==
  /\ client.service.sockets[n] = "connecting"
  /\ ServiceBecomes([client.service EXCEPT !.sockets = [@ EXCEPT ![n] = "open"],
                                           !.isConnected = TRUE, !.reconnectAttempts = 0])

\* ws.onclose: the connection was refused or lost, or close() was called
ServiceClose(n) ==
  /\ client.service.sockets[n] \in {"connecting", "open", "closing"}
  /\ ServiceBecomes(handleReconnect([client.service EXCEPT
                                       !.sockets = [@ EXCEPT ![n] = "closed"],
                                       !.isConnected = FALSE]))

\* the callback of handleReconnect's setTimeout
ServiceReconnect ==
  /\ client.service.timeouts > 0
  /\ client.available => socketsCreated(client.service.sockets) < MaxSockets
  /\ ServiceBecomes(setupWebSocket([client.service EXCEPT !.timeouts = @ - 1],
                                   client.available))

\* ------------------------------------------- TokenWebSocket (src/lib/api.ts)
reconnect(k) ==
  IF k.reconnectAttempts < maxReconnectAttempts THEN [k EXCEPT !.timeouts = @ + 1] ELSE k

connect(k, available) ==
  IF available
    THEN LET n == socketsCreated(k.sockets) + 1
         IN [k EXCEPT !.ws = n, !.sockets = [@ EXCEPT ![n] = "connecting"]]
    ELSE reconnect(k)

SocketBecomes(k) ==
  /\ client' = [client EXCEPT !.socket = k]
  /\ UNCHANGED <<tokens, transactions, creatorFees, req, now, failures, holders,
                 priceHistory>>

\* connect() called by the page, once
SocketConnect ==
  /\ socketsCreated(client.socket.sockets) = 0 /\ client.socket.timeouts = 0
  /\ client.socket.reconnectAttempts = 0 /\ ~client.socket.disconnected
  /\ SocketBecomes(connect(client.socket, client.available))

SocketOpen(n) ==
  /\ client.socket.sockets[n] = "connecting"
  /\ SocketBecomes([client.socket EXCEPT !.sockets = [@ EXCEPT ![n] = "open"],
                                         !.reconnectAttempts = 0])

SocketClose(n) ==
  /\ client.socket.sockets[n] \in {"connecting", "open", "closing"}
  /\ SocketBecomes(reconnect([client.socket EXCEPT !.sockets = [@ EXCEPT ![n] = "closed"]]))

\* the callback of reconnect's setTimeout
SocketReconnect ==
  /\ client.socket.timeouts > 0
  /\ client.available => socketsCreated(client.socket.sockets) < MaxTokenSockets
  /\ SocketBecomes(connect([client.socket EXCEPT !.timeouts = @ - 1,
                                                 !.reconnectAttempts = @ + 1],
                           client.available))

Disconnect ==
  /\ ~client.socket.disconnected
  /\ LET k == client.socket
     IN SocketBecomes([k EXCEPT !.sockets = IF k.ws # NoSocket THEN close(@, k.ws) ELSE @,
                                !.ws = NoSocket, !.disconnected = TRUE])

\* The page on its own: the service as constructed (getRealTimeService) and
\* a TokenWebSocket not yet connected, in a runtime with or without WebSocket.
InitClient ==
  /\ tokens = [t \in AllTokenIds |-> NoToken]
  /\ transactions = {}
  /\ creatorFees = [k \in FeeKeys |-> NoFee]
  /\ req = [r \in Reqs |-> IdleReq]
  /\ now = 1
  /\ failures = 0
  /\ holders = {}
  /\ priceHistory = <<>>
  /\ \E available \in BOOLEAN :
       client = [available |-> available, service |-> setupWebSocket(NewService, available),
                 socket |-> NewTokenSocket]

NextClient ==
  \/ \E tokenId \in ClientTokens : Subscribe(tokenId)
  \/ \E tokenId \in ClientTokens : Unsubscribe(tokenId)
  \/ UnsubscribeAll
  \/ Cleanup
  \/ \E n \in 1..MaxSockets : ServiceOpen(n)
  \/ \E n \in 1..MaxSockets : ServiceClose(n)
  \/ ServiceReconnect
  \/ SocketConnect
  \/ \E n \in 1..MaxTokenSockets : SocketOpen(n)
  \/ \E n \in 1..MaxTokenSockets : SocketClose(n)
  \/ SocketReconnect
  \/ Disconnect

SpecClient == InitClient /\ [][NextClient]_vars

\* ================================================================ claims
Trades == {"buy", "sell"}
IsTrade(rec) == rec.kind \in Trades
\* the request has read its token row
HasRead(rec) == IsTrade(rec) /\ rec.token # NoToken
WroteNothing(rec) ==
  rec.tokenW = "no" /\ rec.txW = "no" /\ rec.feeW = "no" /\ rec.gradW = "no"
TxOf(id) == {tx \in transactions : tx.tokenId = id}
NewSupplyOf(rec) == IF rec.kind = "buy" THEN BuyNewSupply(rec) ELSE SellNewSupply(rec)
NewMarketCapOf(rec) == IF rec.kind = "buy" THEN BuyNewMarketCap(rec) ELSE SellNewMarketCap(rec)

\* C1: two concurrent buys of one token that both succeed (no other trade
\* having written the token) leave currentSupply at the value of running them
\* one after the other: the second quoted at the supply the first left.
C1_SequentialBuys ==
  \A a \in Reqs, b \in Reqs :
    ( /\ a # b
      /\ req[a].kind = "buy" /\ req[b].kind = "buy"
      /\ req[a].response = "ok" /\ req[b].response = "ok"
      /\ req[a].tokenId = req[b].tokenId
      /\ \A c \in Reqs \ {a, b} : req[c].tokenW # "ok" )
    => \/ /\ req[b].token.currentSupply = BuyNewSupply(req[a])
          /\ tokens[req[a].tokenId].currentSupply = BuyNewSupply(req[b])
       \/ /\ req[a].token.currentSupply = BuyNewSupply(req[b])
          /\ tokens[req[a].tokenId].currentSupply = BuyNewSupply(req[a])

\* C2: settlement is all-or-nothing: a finished trade has applied its token
\* update, its Transaction record and its CreatorFee increment, or none of them.
C2_AtomicSettle ==
  \A r \in Reqs :
    (IsTrade(req[r]) /\ req[r].pc = "done")
    => /\ (req[r].tokenW = "ok") = (req[r].txW = "ok")
       /\ (req[r].txW = "ok") = (req[r].feeW = "ok")

\* C3: once a token is graduated, no step of a buy or sell changes its
\* currentSupply, price or marketCap or appends a Transaction record for it.
C3_GraduatedImmutable ==
  [][\A id \in TokenIds :
       ( /\ tokens[id] # NoToken
         /\ tokens[id].isGraduated
         /\ \E r \in Reqs : req'[r] # req[r] /\ IsTrade(req'[r]) )
       => /\ tokens'[id].currentSupply = tokens[id].currentSupply
          /\ tokens'[id].price = tokens[id].price
          /\ tokens'[id].marketCap = tokens[id].marketCap
          /\ {tx \in transactions' : tx.tokenId = id} = TxOf(id)]_vars

\* C4: a trade that settled on a token it read as not graduated, with
\* shouldGraduate(newSupply, newMarketCap), ends with the token graduated and
\* graduatedAt set.
C4_GraduatesWhenDue ==
  \A r \in Reqs :
    ( /\ HasRead(req[r]) /\ req[r].pc = "done" /\ req[r].response = "ok"
      /\ ~req[r].token.isGraduated
      /\ shouldGraduate(NewSupplyOf(req[r]), NewMarketCapOf(req[r])) )
    => /\ tokens[req[r].tokenId].isGraduated
       /\ tokens[req[r].tokenId].graduatedAt # 0

\* C5: a buy or sell that reads a graduated token is answered with the
\* graduated-token error in the step that reads it, before any curve function
\* has produced a quote, and that step and the request write nothing.
C5_GraduatedRejected ==
  /\ [][\A r \in Reqs :
          (req[r].pc = "idle" /\ HasRead(req'[r]) /\ tokens[req'[r].tokenId].isGraduated)
          => /\ req'[r].pc = "done" /\ req'[r].response = "graduated"
             /\ req'[r].out = NoQuote
             /\ UNCHANGED <<tokens, transactions, creatorFees>>]_vars
  /\ [](\A r \in Reqs :
          (HasRead(req[r]) /\ req[r].token.isGraduated)
          => req[r].response = "graduated" /\ WroteNothing(req[r]))

C5_Witness ==
  \E r \in Reqs : HasRead(req[r]) /\ req[r].token.isGraduated /\ req[r].response = "graduated"

\* C6: graduation happens once: isGraduated never goes back to false and
\* graduatedAt, once written, is never written again.
C6_GraduationOnce ==
  [][\A id \in TokenIds :
       (tokens[id] # NoToken /\ tokens[id].isGraduated)
       => /\ tokens'[id].isGraduated
          /\ tokens'[id].graduatedAt = tokens[id].graduatedAt]_vars

\* C7 as stated: every sell that reads a token with currentSupply below its
\* tokenAmount is answered with the insufficient-supply error and writes nothing.
C7_AnyTokenInsufficientSupply ==
  \A r \in Reqs :
    (req[r].kind = "sell" /\ HasRead(req[r]) /\ req[r].amount > req[r].token.currentSupply)
    => req[r].response = "insufficient_supply" /\ WroteNothing(req[r])

\* C7 amended: a sell that reads a token that is not graduated, with
\* currentSupply below its tokenAmount, is answered with the insufficient-supply
\* error in the step that reads it, without a quote, and writes nothing.
C7_InsufficientSupplyRejected ==
  /\ [][\A r \in Reqs :
          ( /\ req[r].pc = "idle" /\ req'[r].kind = "sell" /\ HasRead(req'[r])
            /\ ~tokens[req'[r].tokenId].isGraduated
            /\ req'[r].amount > tokens[req'[r].tokenId].currentSupply )
          => /\ req'[r].pc = "done" /\ req'[r].response = "insufficient_supply"
             /\ req'[r].out = NoQuote
             /\ UNCHANGED <<tokens, transactions, creatorFees>>]_vars
  /\ [](\A r \in Reqs :
          ( /\ req[r].kind = "sell" /\ HasRead(req[r]) /\ ~req[r].token.isGraduated
            /\ req[r].amount > req[r].token.currentSupply )
          => req[r].response = "insufficient_supply" /\ WroteNothing(req[r]))

C7_Witness ==
  \E r \in Reqs :
    /\ req[r].kind = "sell" /\ HasRead(req[r]) /\ ~req[r].token.isGraduated
    /\ req[r].amount > req[r].token.currentSupply
    /\ req[r].response = "insufficient_supply"

\* C8: the price impact in percent of a quoted trade, against the price at the
\* currentSupply it read, is over the tolerance (the caller's, or 5) exactly
\* when 100 * |actual - expected| > tolerance * expected, with
\* expected = 30 / (1073 - supply) and actual = sol / tokens.
C8_ImpactOver(rec) ==
  LET reserve == 1073 - rec.token.currentSupply
      sol == IF rec.kind = "buy" THEN rec.amount ELSE rec.out
      tok == IF rec.kind = "buy" THEN rec.out ELSE rec.amount
      tolerance == IF rec.slippage = NoSlippage THEN 5 ELSE rec.slippage
  IN tok = 0 \/ 100 * Abs(sol * reserve - 3000 * tok) > tolerance * 3000 * tok

\* C8: a trade goes on to settle only if its price impact is within the
\* tolerance; a quoted trade over the tolerance is answered with the
\* price-impact error and writes nothing.
C8_SlippageGate ==
  \A r \in Reqs :
    (HasRead(req[r]) /\ req[r].out # NoQuote)
    => IF C8_ImpactOver(req[r])
         THEN /\ req[r].pc = "done" /\ req[r].response = "price_impact"
              /\ WroteNothing(req[r])
         ELSE req[r].response # "price_impact"

C8_Witness ==
  /\ \E r \in Reqs : HasRead(req[r]) /\ req[r].response = "price_impact"
                     /\ req[r].slippage = NoSlippage
  /\ \E r \in Reqs : HasRead(req[r]) /\ req[r].response = "ok" /\ req[r].tokenW = "ok"

\* C9: a finished trade is answered with success exactly when its Transaction
\* record exists, and a successful one has exactly one record with its signature.
C9_ResponseMatchesRecord ==
  \A r \in Reqs :
    (IsTrade(req[r]) /\ req[r].pc = "done")
    => /\ (req[r].response = "ok") = (req[r].txW = "ok")
       /\ req[r].response = "ok"
            => Cardinality({tx \in transactions : tx.signature = req[r].signature}) = 1

\* C10: for every CreatorFee row, claimedFees <= totalFees, and neither
\* totalFees nor claimedFees ever decreases.
C10_FeeLedgerMonotone ==
  [][\A k \in FeeKeys :
       creatorFees[k] # NoFee
       => /\ creatorFees'[k] # NoFee
          /\ creatorFees'[k].totalFees >= creatorFees[k].totalFees
          /\ creatorFees'[k].claimedFees >= creatorFees[k].claimedFees
          /\ creatorFees'[k].claimedFees <= creatorFees'[k].totalFees]_vars

\* the fee a trade owes the creator: 1% of the SOL paid in by a buy, 5% of the
\* gross SOL out of a sell, in 1/100 centi-SOL
C11_FeeOf(rec) ==
  IF rec.kind = "buy" THEN rec.amount ELSE IF rec.kind = "sell" THEN 5 * rec.out ELSE 0

RECURSIVE C11_Sum(_)
C11_Sum(S) ==
  IF S = {} THEN 0
  ELSE LET r == CHOOSE x \in S : TRUE IN C11_FeeOf(req[r]) + C11_Sum(S \ {r})

C11_Applied(k) ==
  {r \in Reqs : IsTrade(req[r]) /\ req[r].feeW = "ok" /\ FeeKeyOf(req[r].token) = k}

C11_Total(fees, k) == IF fees[k] = NoFee THEN 0 ELSE fees[k].totalFees

\* C11: the totalFees of a CreatorFee row is the sum of the fees of the trades
\* whose increment was applied (every trade answered with success is one) plus
\* the manual additions, and each upsert or manual addition moves totalFees by
\* exactly its own delta, whether it creates the row or finds it.
C11_FeesAreTheSum ==
  /\ [](\A k \in FeeKeys :
          /\ \E n \in 0..MaxPuts :
               C11_Total(creatorFees, k) = C11_Sum(C11_Applied(k)) + n * Fine(1)
          /\ \A r \in Reqs :
               (IsTrade(req[r]) /\ req[r].response = "ok" /\ FeeKeyOf(req[r].token) = k)
               => r \in C11_Applied(k))
  /\ [][\A k \in FeeKeys :
          C11_Total(creatorFees', k) - C11_Total(creatorFees, k) =
            IF \E r \in Reqs : /\ req[r].feeW = "no" /\ req'[r].feeW = "ok"
                                /\ FeeKeyOf(req[r].token) = k
              THEN C11_FeeOf(req[CHOOSE r \in Reqs : req[r].feeW = "no" /\ req'[r].feeW = "ok"])
              ELSE IF req' = req /\ creatorFees'[k] # creatorFees[k]
                        /\ C11_Total(creatorFees', k) # C11_Total(creatorFees, k)
                     THEN Fine(1)
                     ELSE 0]_vars

\* a buy and a sell have both settled with success and the row, which the
\* first of them created, holds the two fees
C11_Witness ==
  \E a \in Reqs, b \in Reqs :
    /\ req[a].kind = "buy" /\ req[b].kind = "sell"
    /\ req[a].response = "ok" /\ req[b].response = "ok"
    /\ creatorFees[FeeKeyOf(req[a].token)] # NoFee
    /\ creatorFees[FeeKeyOf(req[a].token)].totalFees = C11_FeeOf(req[a]) + C11_FeeOf(req[b])

\* C12: no two Transaction records share a signature, whatever their tokens
\* and trade types.
C12_SignatureUnique ==
  \A t1 \in transactions, t2 \in transactions : t1.signature = t2.signature => t1 = t2

\* two trades of the same type, whose signatures are drawn from the same
\* strings, have both stored their record
C12_Witness ==
  \E t1 \in transactions, t2 \in transactions :
    t1 # t2 /\ t1.type = t2.type /\ t1.signature # t2.signature

C14_OtherTokensUnchanged ==
  [][\A r \in Reqs :
       (req'[r] # req[r] /\ HasRead(req'[r]))
       => \A b \in AllTokenIds \ {req'[r].tokenId} :
            /\ tokens'[b] = tokens[b]
            /\ {tx \in transactions' : tx.tokenId = b} = TxOf(b)
            /\ tokens[b] # NoToken
                 => creatorFees'[FeeKeyOf(tokens[b])] = creatorFees[FeeKeyOf(tokens[b])]]_vars

\* each of two tokens has been traded: each has its own record and fee row
C14_Witness ==
  \E a \in AllTokenIds, b \in AllTokenIds :
    /\ a # b /\ tokens[a] # NoToken /\ tokens[b] # NoToken
    /\ TxOf(a) # {} /\ TxOf(b) # {}
    /\ creatorFees[FeeKeyOf(tokens[a])] # NoFee /\ creatorFees[FeeKeyOf(tokens[b])] # NoFee
    /\ \E r \in Reqs, q \in Reqs :
         /\ req[r].tokenId = a /\ req[r].response = "ok"
         /\ req[q].tokenId = b /\ req[q].response = "ok"

\* C15: no two stored tokens have the same symbol or the same name, creations
\* running side by side included.
C15_NameAndSymbolUnique ==
  \A a \in AllTokenIds, b \in AllTokenIds :
    (a # b /\ tokens[a] # NoToken /\ tokens[b] # NoToken)
    => tokens[a].symbol # tokens[b].symbol /\ tokens[a].name # tokens[b].name

\* C16: for every supply below TARGET_SUPPLY and every solIn > 0,
\* calculateSolForTokens(calculateTokensForSol(solIn, s), s) <= solIn.
C16_RoundTripBound ==
  \A r \in Reqs :
    (req[r].kind = "quote" /\ req[r].pc = "done") => req[r].total <= req[r].amount

\* every field of the metadata empty or missing
C17_AllMissing(token) ==
  /\ falsy(token.creatorAddress)
  /\ ~token.website /\ ~token.twitter /\ ~token.telegram
  /\ token.description \in {NoValue, 0}
  /\ ~token.imageUrl /\ ~token.bannerUrl
  /\ falsy(token.name) /\ falsy(token.symbol)
  /\ token.totalSupply = NoValue /\ token.initialBuy \in {NoValue, 0}

C17_Scored(rec) == rec.kind = "analyze" /\ rec.pc = "done" /\ C17_AllMissing(rec.token)

\* C17 as stated: a token whose every metadata field is empty or missing gets
\* rug score 100 and risk level EXTREME.
C17_AllMissingIsExtreme ==
  \A r \in Reqs : C17_Scored(req[r]) => req[r].out = 100 /\ req[r].response = "EXTREME"

\* C17 amended: a token whose every metadata field is empty or missing gets
\* rug score 80 (20 + 15 + 15 + 10 + 5 + 5 + 5 + 5) and risk level VERY_HIGH.
C17_AllMissingIsVeryHigh ==
  \A r \in Reqs : C17_Scored(req[r]) => req[r].out = 80 /\ req[r].response = "VERY_HIGH"

\* a token with every field absent has been scored and given its level
C17_Witness ==
  \E r \in Reqs : C17_Scored(req[r]) /\ ~req[r].token.name.given /\ ~req[r].token.symbol.given

\* the points of the scoring table, rule by rule
C18_Length(field) == IF field.given THEN Len(field.text) ELSE 0
C18_Denylisted(field) ==
  field.given /\ \E pattern \in suspiciousPatterns : includes(toLowerCase(field.text), pattern)
C18_Links(token) ==
  Cardinality({l \in {"website", "twitter", "telegram"} : token[l]})

C18_TablePoints(token) ==
  (IF C18_Length(token.creatorAddress) = 0 THEN 20
   ELSE IF SubSeq(token.creatorAddress.text, 1, 4) = <<"1", "1", "1", "1">> THEN 10 ELSE 0)
  + (CASE C18_Links(token) = 0 -> 15 [] C18_Links(token) = 1 -> 10
       [] C18_Links(token) = 2 -> 5 [] OTHER -> 0)
  + (CASE token.description \in {NoValue, 0} -> 15
       [] token.description \in 1..19 -> 10
       [] token.description \in 20..49 -> 5
       [] OTHER -> 0)
  + (IF token.imageUrl THEN 0 ELSE 10)
  + (IF token.bannerUrl THEN 0 ELSE 5)
  + (IF C18_Length(token.name) < 3 THEN 5 ELSE 0)
  + (IF C18_Length(token.symbol) < 2 THEN 5 ELSE 0)
  + (IF C18_Denylisted(token.name) \/ C18_Denylisted(token.symbol) THEN 10 ELSE 0)
  + (IF token.totalSupply \in (MaxSaneSupply + 1)..(2 * MaxSaneSupply) THEN 10 ELSE 0)
  + (IF token.initialBuy \in {NoValue, 0} THEN 5 ELSE 0)

\* C18: for every token metadata, analyzeToken returns min(100, the sum of the
\* points of the table's rules that fire), an integer in 0..100; the denylist
\* rule fires when the name or the symbol holds a denylisted substring,
\* whatever its case.
C18_ScoreIsTableSum ==
  \A r \in Reqs :
    (req[r].kind = "analyze" /\ req[r].pc # "score")
    => /\ req[r].out = Min(100, C18_TablePoints(req[r].token))
       /\ req[r].out \in 0..100

\* a scored token on which the prefix, description-length, denylist and
\* supply rules all fire
C18_Witness ==
  \E r \in Reqs :
    /\ req[r].kind = "analyze" /\ req[r].pc # "score"
    /\ creatorPoints(req[r].token) = 10
    /\ req[r].token.description = 19
    /\ req[r].token.name = Given(<<"T", "e", "s", "t">>)
    /\ req[r].token.totalSupply > MaxSaneSupply
    /\ req[r].out >= 35

\* C19: the net balance of an address in a token: the sum of the amounts of
\* its BUY records minus the sum of the amounts of its SELL records.
RECURSIVE C19_Sum(_)
C19_Sum(rows) ==
  IF rows = {} THEN 0
  ELSE LET row == CHOOSE x \in rows : TRUE IN row.amount + C19_Sum(rows \ {row})

C19_NetBalance(tokenId, address) ==
  C19_Sum({tx \in transactions : /\ tx.tokenId = tokenId /\ tx.userAddress = address
                                 /\ tx.type = "BUY"})
    - C19_Sum({tx \in transactions : /\ tx.tokenId = tokenId /\ tx.userAddress = address
                                     /\ tx.type = "SELL"})

\* the history BUY 100, BUY 50, SELL 30 of one address
C19_Example ==
  /\ Cardinality(transactions) = 3
  /\ \A tx \in transactions : tx.tokenId = 1 /\ tx.userAddress = "addr1"
  /\ \E tx \in transactions : tx.createdAt = 1 /\ tx.type = "BUY" /\ tx.amount = 100
  /\ \E tx \in transactions : tx.createdAt = 2 /\ tx.type = "BUY" /\ tx.amount = 50
  /\ \E tx \in transactions : tx.createdAt = 3 /\ tx.type = "SELL" /\ tx.amount = 30

\* C19: every holder the replay of a token's transaction history lists has a
\* net balance above zero, and the balance listed for it is exactly that net
\* balance (so an address whose net balance is zero or negative is never
\* listed); the history BUY 100, BUY 50, SELL 30 of one address lists it with
\* the balance 120.
C19_ListedAtNetBalance ==
  \A r \in Reqs :
    (req[r].kind = "refresh" /\ req[r].response = "ok") =>
      /\ \A i \in 1..Len(req[r].data) :
           /\ C19_NetBalance(req[r].tokenId, req[r].data[i].address) > 0
           /\ req[r].data[i].balance
                = C19_NetBalance(req[r].tokenId, req[r].data[i].address)
      /\ C19_Example =>
           /\ Len(req[r].data) = 1
           /\ req[r].data[1].address = "addr1"
           /\ req[r].data[1].balance = 120

\* the example history has been replayed, and so has a history that leaves
\* an address at a net balance of zero or less
C19_Witness ==
  /\ C19_Example
  /\ \E r \in Reqs : req[r].kind = "refresh" /\ req[r].response = "ok"
                     /\ Len(req[r].data) = 1

C19_WitnessNonPositive ==
  \E r \in Reqs, a \in LedgerAddresses :
    /\ req[r].kind = "refresh" /\ req[r].response = "ok"
    /\ \E tx \in transactions : tx.tokenId = req[r].tokenId /\ tx.userAddress = a
    /\ C19_NetBalance(req[r].tokenId, a) <= 0
    /\ \A i \in 1..Len(req[r].data) : req[r].data[i].address # a

\* C20: the addresses and balances of a holders response
C20_Balances(rec) == {<<rec.data[i].address, rec.data[i].balance>> : i \in 1..Len(rec.data)}

C20_Answered(r) == req[r].kind = "holders" /\ req[r].response = "ok"

\* two answered holder queries for the same token with the same limit and
\* filters, the later one asked with no trade request since the earlier
C20_Repeated(a, b) ==
  /\ a < b
  /\ C20_Answered(a) /\ C20_Answered(b)
  /\ req[a].tokenId = req[b].tokenId
  /\ req[a].query = req[b].query
  /\ \A r \in a..b : ~IsTrade(req[r])

\* C20: with no trade in between, repeated holder queries for the same token
\* with the same limit and filters return the same set of holder addresses
\* with the same balances, whether the answer is recomputed from the
\* transactions or served from the stored Holder rows.
C20_HoldersIdempotent ==
  \A a \in HolderReqs, b \in HolderReqs :
    C20_Repeated(a, b) => C20_Balances(req[a]) = C20_Balances(req[b])

\* a repeated query answered once from the stored rows and once by replay
C20_Witness ==
  \E a \in HolderReqs, b \in HolderReqs :
    /\ C20_Repeated(a, b)
    /\ req[a].dataSource # req[b].dataSource
    /\ req[a].data # <<>>

\* C21: the accepted trades of a token in the bucket of the given width that
\* starts at the given minute, their total volume, and the sum of price times
\* volume and the sum of the prices as quotients
C21_Trades(tokenId, width, start) ==
  {tx \in transactions :
     /\ tx.tokenId = tokenId
     /\ (tx.createdAt \div width) * width = start
     /\ tx.price[1] > 0}

RECURSIVE C21_Volume(_)
C21_Volume(rows) ==
  IF rows = {} THEN 0
  ELSE LET tx == CHOOSE x \in rows : TRUE IN tx.solAmount + C21_Volume(rows \ {tx})

RECURSIVE C21_Weighted(_)
C21_Weighted(rows) ==
  IF rows = {} THEN <<0, 1>>
  ELSE LET tx == CHOOSE x \in rows : TRUE
           rest == C21_Weighted(rows \ {tx})
       IN <<tx.price[1] * tx.solAmount * rest[2] + rest[1] * tx.price[2],
            tx.price[2] * rest[2]>>

RECURSIVE C21_PriceSum(_)
C21_PriceSum(rows) ==
  IF rows = {} THEN <<0, 1>>
  ELSE LET tx == CHOOSE x \in rows : TRUE
           rest == C21_PriceSum(rows \ {tx})
       IN <<tx.price[1] * rest[2] + rest[1] * tx.price[2], tx.price[2] * rest[2]>>

\* the price the claim gives a bucket: sum(price * volume) / sum(volume), or
\* the plain mean of the prices when the volume is zero
C21_Expected(rows) ==
  IF C21_Volume(rows) > 0
    THEN <<C21_Weighted(rows)[1], C21_Weighted(rows)[2] * C21_Volume(rows)>>
    ELSE <<C21_PriceSum(rows)[1], C21_PriceSum(rows)[2] * Cardinality(rows)>>

\* a request answered with the buckets generated from the transactions
C21_Generated(rec) ==
  rec.kind = "prices" /\ rec.response = "ok" /\ rec.dataSource = "transactions"
  /\ rec.query = "auto"

C21_Formula ==
  \A r \in Reqs :
    C21_Generated(req[r]) =>
      \A i \in 1..Len(req[r].data) :
        LET point == req[r].data[i]
            rows == C21_Trades(req[r].tokenId, IntervalMinutes, point.time)
        IN /\ rows # {}
           /\ point.price[1] * C21_Expected(rows)[2]
                = C21_Expected(rows)[1] * point.price[2]

\* three trades at 0.001, 0.002 and 0.003 SOL per token with volumes 1, 1
\* and 2 in one bucket, and nothing else
C21_Scenario ==
  /\ Cardinality(transactions) = 3
  /\ \E tx \in transactions : tx.price = <<100000, 1>> /\ tx.solAmount = 1
  /\ \E tx \in transactions : tx.price = <<200000, 1>> /\ tx.solAmount = 1
  /\ \E tx \in transactions : tx.price = <<300000, 1>> /\ tx.solAmount = 2
  /\ \A tx \in transactions : tx.createdAt = 7

C21_ScenarioPrice(price) ==
  \A r \in Reqs :
    (C21_Generated(req[r]) /\ C21_Scenario) =>
      /\ Len(req[r].data) = 1
      /\ req[r].data[1].price[1] * price[2] = price[1] * req[r].data[1].price[2]

\* C21 as stated: the price of every bucket is the sum of price times volume
\* over the sum of the volumes of its accepted trades (the plain mean of the
\* prices at zero volume), and the scenario's bucket reports 0.0025.
C21_VwapScenarioLiteral == C21_Formula /\ C21_ScenarioPrice(<<250000, 1>>)

\* C21: the price of every bucket is the sum of price times volume over the
\* sum of the volumes of its accepted trades (the plain mean of the prices at
\* zero volume); for the scenario's three trades in one bucket that is
\* 0.009 / 4 = 0.00225.
C21_VwapPerBucket == C21_Formula /\ C21_ScenarioPrice(<<225000, 1>>)

\* the scenario's bucket has been reported
C21_Witness == C21_Scenario /\ \E r \in Reqs : C21_Generated(req[r]) /\ Len(req[r].data) = 1

\* C22: a quote answered for a token below the target supply (and, for a sale,
\* for an amount within the supply) gives the output
\* the trade routes compute for the same token state and input: for a buy the
\* tokens of calculateTokensForSol at the supply read, for a sale the SOL of
\* calculateSolForTokens at the supply read less the fee of the sell route;
\* amounts are compared to the resolution of the curve's results (10^6 tokens,
\* 0.01 SOL, with one step of rounding allowed on the SOL side).
C22_Quoted(rec) ==
  /\ rec.kind = "estimate" /\ rec.response = "ok" /\ rec.data # <<>>
  /\ ~curveThrows(rec.token.currentSupply)
  /\ rec.query = "false" => ~SellInsufficientSupply(rec.amount, rec.token.currentSupply)
C22_Whole(q) == q[1] \div q[2]
C22_BuyAgrees(rec) ==
  C22_Whole(rec.data.outputAmount) = calculateTokensForSol(rec.amount, rec.token.currentSupply)
C22_SellAgrees(rec) ==
  LET solOut == calculateSolForTokens(rec.amount, rec.token.currentSupply)
      paid == SellSolAfterFee([out |-> solOut]) \div 100
  IN Abs(C22_Whole(rec.data.outputAmount) - paid) <= 1
C22_QuoteIsExecution ==
  \A r \in Reqs :
    C22_Quoted(req[r]) =>
      IF req[r].query = "true" THEN C22_BuyAgrees(req[r]) ELSE C22_SellAgrees(req[r])

\* C23: in an answer built from the transactions for a granularity of 1, 5,
\* 15 or 60 minutes, every returned point counts exactly the accepted trades
\* of the token whose instant t has floor(t / width) * width at the point's
\* bucket start, width being the requested one: the number of trades and
\* their volume at the point are those of that bucket.
C23_Bucketed(rec) ==
  /\ rec.kind = "prices" /\ rec.response = "ok" /\ rec.dataSource = "transactions"
  /\ granularityMinutes(rec.query) # NoWidth
C23_Trades(tokenId, width, time) ==
  {tx \in transactions :
     /\ tx.tokenId = tokenId
     /\ timeOfDay((tx.createdAt \div width) * width) = time
     /\ acceptedPrice(txPrice(tx))}
RECURSIVE C23_Volume(_)
C23_Volume(rows) ==
  IF rows = {} THEN 0
  ELSE LET tx == CHOOSE x \in rows : TRUE IN tx.solAmount + C23_Volume(rows \ {tx})
C23_PointIsBucket(rec, point) ==
  LET rows == C23_Trades(rec.tokenId, granularityMinutes(rec.query), point.time)
  IN point.transactions = Cardinality(rows) /\ point.volume = C23_Volume(rows)
C23_GranularityBuckets ==
  \A r \in Reqs :
    C23_Bucketed(req[r]) =>
      \A i \in 1..Len(req[r].data) : C23_PointIsBucket(req[r], req[r].data[i])

\* C24: the values a trade settles with follow the rule of its path.  The
\* token update of a buy stores the market cap the request read plus
\* solAmount, and its Transaction row records solAmount in full (no fee
\* deducted); the token update of a sale with curve output solOut stores
\* max(0, the market cap the request read - solOut), and its Transaction row
\* records solOut * 0.95; either update stores as price calculatePrice of the
\* currentSupply it stores.
C24_TokenWritten(r) == req[r].tokenW = "no" /\ req'[r].tokenW = "ok"
C24_RowWritten(r) == req[r].txW = "no" /\ req'[r].txW = "ok"
C24_Row(r) == CHOOSE tx \in transactions' : tx.signature = req'[r].signature
C24_TokenRule(r) ==
  LET rec == req[r]
      after == tokens'[rec.tokenId]
  IN /\ after.price = calculatePrice(after.currentSupply)
     /\ rec.kind = "buy" => after.marketCap = rec.token.marketCap + rec.amount
     /\ rec.kind = "sell" =>
          after.marketCap = (IF rec.token.marketCap > rec.out
                               THEN rec.token.marketCap - rec.out ELSE 0)
C24_RowRule(r) ==
  LET rec == req[r]
      row == C24_Row(r)
  IN /\ row \notin transactions
     /\ rec.kind = "buy" => row.type = "BUY" /\ row.solAmount = Fine(rec.amount)
     /\ rec.kind = "sell" => row.type = "SELL" /\ 100 * row.solAmount = 95 * Fine(rec.out)
C24_PerPathValues ==
  [][\A r \in Reqs :
       /\ (req[r].kind \in {"buy", "sell"} /\ C24_TokenWritten(r)) => C24_TokenRule(r)
       /\ (req[r].kind \in {"buy", "sell"} /\ C24_RowWritten(r)) => C24_RowRule(r)]_vars
\* a buy and a sale both settled, the sale from a market cap smaller than its
\* output (the floor at 0)
C24_Witness ==
  \E b, s \in Reqs :
    /\ req[b].kind = "buy" /\ req[b].tokenW = "ok" /\ req[b].txW = "ok"
    /\ req[s].kind = "sell" /\ req[s].tokenW = "ok" /\ req[s].txW = "ok"
    /\ req[s].out > 0 /\ req[s].token.marketCap < req[s].out

\* C25: for every CreatorFee row, the amounts paid out by the successful
\* claims made for that row (claims naming the row's token, whose answer
\* carries that row's claimedAmount alone) add up to at most the row's
\* totalFees.
C25_Claims(tokenAddress) ==
  {r \in Reqs : /\ req[r].kind = "claim" /\ req[r].response = "ok"
                /\ req[r].tokenId = tokenAddress}
RECURSIVE C25_Paid(_)
C25_Paid(claims) ==
  IF claims = {} THEN 0
  ELSE LET r == CHOOSE x \in claims : TRUE IN req[r].total + C25_Paid(claims \ {r})
C25_NoDoublePayout ==
  \A t \in TokenIds :
    creatorFees[<<Creator, t>>] # NoFee =>
      C25_Paid(C25_Claims(t)) <= creatorFees[<<Creator, t>>].totalFees

\* C26: whenever no buy and no sale is in flight, the currentSupply of every
\* token less the currentSupply it was created with (its totalSupply) equals
\* the amounts of its BUY rows less the amounts of its SELL rows.
C26_NoTradeInFlight ==
  \A r \in Reqs : req[r].kind \in {"buy", "sell"} => req[r].pc = "done"
RECURSIVE C26_Amounts(_)
C26_Amounts(rows) ==
  IF rows = {} THEN 0
  ELSE LET tx == CHOOSE x \in rows : TRUE IN tx.amount + C26_Amounts(rows \ {tx})
C26_Rows(id, type) == {tx \in transactions : tx.tokenId = id /\ tx.type = type}
C26_SupplyConserved ==
  C26_NoTradeInFlight =>
    \A id \in TokenIds :
      tokens[id] # NoToken =>
        tokens[id].currentSupply - tokens[id].totalSupply
          = C26_Amounts(C26_Rows(id, "BUY")) - C26_Amounts(C26_Rows(id, "SELL"))

\* C27: for every address and every token, the amounts of the address's BUY
\* rows of the token less the amounts of its SELL rows are never negative.
C27_Rows(id, address, type) ==
  {tx \in transactions : tx.tokenId = id /\ tx.userAddress = address /\ tx.type = type}
RECURSIVE C27_Amounts(_)
C27_Amounts(rows) ==
  IF rows = {} THEN 0
  ELSE LET tx == CHOOSE x \in rows : TRUE IN tx.amount + C27_Amounts(rows \ {tx})
C27_SellerHoldsWhatIsSold ==
  \A id \in TokenIds : \A address \in {tx.userAddress : tx \in transactions} :
    C27_Amounts(C27_Rows(id, address, "BUY")) >= C27_Amounts(C27_Rows(id, address, "SELL"))

\* C28: every token that is not graduated has a currentSupply below
\* TARGET_SUPPLY, so that no trade on it is failed by the curve's own check
\* of the supply.
C28_BelowTargetUntilGraduated ==
  \A id \in TokenIds :
    (tokens[id] # NoToken /\ ~tokens[id].isGraduated) =>
      tokens[id].currentSupply < TARGET_SUPPLY

\* C29: the RealTimeService has at most one polling timer running for a
\* tokenId, and none for a tokenId that is not subscribed (after
\* unsubscribe(tokenId), until it is subscribed again).
C29_Timers(tokenId) == {timer \in client.service.timers : timer[2] = tokenId}
C29_OneTimerWhileSubscribed ==
  \A tokenId \in ClientTokens :
    /\ Cardinality(C29_Timers(tokenId)) <= 1
    /\ tokenId \notin client.service.subscriptions => C29_Timers(tokenId) = {}

\* C30: once RealTimeService.cleanup() has been called the service creates no
\* further WebSocket, and once TokenWebSocket.disconnect() has been called
\* that object creates none either.
C30_NoSocketAfterDisconnect ==
  [][/\ client.service.cleaned =>
          socketsCreated(client'.service.sockets) = socketsCreated(client.service.sockets)
     /\ client.socket.disconnected =>
          socketsCreated(client'.socket.sockets) = socketsCreated(client.socket.sockets)]_vars

====
